---- MODULE Spec2Model ----
(***************************************************************************)
(* A model of the voice-scheduling lambda: the Google Calendar booking     *)
(* platform (book / cancel / reschedule / availability) over a calendar    *)
(* store, and the availability computation of the base platform.           *)
(*                                                                         *)
(* Time is counted in minutes of local (America/New_York) wall-clock time  *)
(* since midnight of day 0; a timestamp 'YYYY-MM-DDTHH:MM:SS' is the       *)
(* number Day * MinutesPerDay + minute-of-day.  The calendar store keeps   *)
(* event instants in UTC, as the code writes them.                         *)
(***************************************************************************)
EXTENDS Integers, Sequences, FiniteSets, TLC

VARIABLES cal, now, last, procs

vars == <<cal, now, last, procs>>

(***************************************************************************)
(* Program constants                                                       *)
(***************************************************************************)
DEFAULT_START_HOUR == 9
DEFAULT_END_HOUR == 17
SlotStep == 30
DefaultDuration == 30
UtcOffset == 240
MinutesPerDay == 24 * 60
max_days_to_check == 14

(***************************************************************************)
(* Bounds of the model                                                     *)
(***************************************************************************)
MaxEvents == 2
MaxSlots == 4

\* The days operations are asked about, relative to the clock.
Today == now \div MinutesPerDay
Yesterday == Today - 1
Tomorrow == Today + 1

(***************************************************************************)
(* datetime helpers                                                        *)
(***************************************************************************)
DayOf(t) == t \div MinutesPerDay
MinuteOfDay(t) == t % MinutesPerDay
HourOf(t) == MinuteOfDay(t) \div 60
AtHour(t, h) == DayOf(t) * MinutesPerDay + h * 60
At(day, hh, mm) == day * MinutesPerDay + hh * 60 + mm

\* strftime('%H:%M'): the four digits of a zero-padded 24-hour time.
StrfHM(t) ==
    LET h == HourOf(t)
        m == MinuteOfDay(t) % 60
    IN  <<h \div 10, h % 10, m \div 10, m % 10>>

\* Python's < and <= on two 'HH:MM' strings: lexicographic on the characters.
StrLT(a, b) ==
    \/ \E i \in 1..Len(a) :
           /\ i <= Len(b)
           /\ a[i] < b[i]
           /\ \A j \in 1..(i - 1) : a[j] = b[j]
    \/ (Len(a) < Len(b) /\ \A j \in 1..Len(a) : a[j] = b[j])

StrLE(a, b) == a = b \/ StrLT(a, b)

\* The minute of the day an 'HH:MM' string denotes.
MinutesOfHM(s) == (s[1] * 10 + s[2]) * 60 + s[3] * 10 + s[4]

\* _format_datetime_for_google: local wall-clock time to the UTC instant.
FormatDatetimeForGoogle(t) == t + UtcOffset

\* _strip_timezone: a stored (UTC) instant to naive local time.
StripTimezone(u) == u - UtcOffset

(***************************************************************************)
(* Calendar events.  A timed event carries start/end 'dateTime' (UTC); an  *)
(* all-day event carries only 'date' keys.  desc is the free-text          *)
(* description: hasDesc says whether the key is present, phone is the text *)
(* after 'Phone: ' (a sequence of digits).                                 *)
(***************************************************************************)
TimedEvent(summary, startLocal, endLocal, hasDesc, phone) ==
    [allDay |-> FALSE,
     start |-> FormatDatetimeForGoogle(startLocal),
     end |-> FormatDatetimeForGoogle(endLocal),
     summary |-> summary, hasDesc |-> hasDesc, phone |-> phone]

AllDayEvent(summary, day) ==
    [allDay |-> TRUE,
     start |-> FormatDatetimeForGoogle(day * MinutesPerDay),
     end |-> FormatDatetimeForGoogle((day + 1) * MinutesPerDay),
     summary |-> summary, hasDesc |-> FALSE, phone |-> <<>>]

LocalStart(e) == StripTimezone(e.start)
LocalEnd(e) == StripTimezone(e.end)

\* f'Phone: {phone_number}' in event.get('description', ''): a substring test;
\* on descriptions of the form 'Phone: <digits>' it is a prefix test.
PhoneInDescription(phone, e) ==
    /\ e.hasDesc
    /\ Len(phone) <= Len(e.phone)
    /\ SubSeq(e.phone, 1, Len(phone)) = phone

(***************************************************************************)
(* The calendar store (the Google Calendar collaborator).  cal is the      *)
(* sequence of stored events, kept in a canonical order (event ids are     *)
(* opaque, so two equal events are interchangeable).                       *)
(***************************************************************************)
Bit(b) == IF b THEN 1 ELSE 0

SummaryRank(s) ==
    CASE s = "Ann" -> 1
      [] s = "External" -> 2
      [] OTHER -> 3

EventKey(e) ==
    <<e.start, e.end, Bit(e.allDay), Bit(e.hasDesc), SummaryRank(e.summary),
      Len(e.phone)>> \o e.phone

KeyLE(a, b) == EventKey(a) = EventKey(b) \/ StrLT(EventKey(a), EventKey(b))

StoreInsert(c, e) ==
    LET n == Cardinality({i \in 1..Len(c) : KeyLE(c[i], e)})
    IN  SubSeq(c, 1, n) \o <<e>> \o SubSeq(c, n + 1, Len(c))

StoreDelete(c, e) ==
    LET i == CHOOSE k \in 1..Len(c) :
                 c[k] = e /\ \A j \in 1..(k - 1) : c[j] # e
    IN  SubSeq(c, 1, i - 1) \o SubSeq(c, i + 1, Len(c))

Reverse(s) == [i \in 1..Len(s) |-> s[Len(s) + 1 - i]]

\* Events with the same start may be listed in either order.
RECURSIVE TieReverse(_)
TieReverse(s) ==
    IF s = <<>> THEN <<>>
    ELSE LET n == CHOOSE k \in 1..Len(s) :
                      /\ \A i \in 1..k : s[i].start = s[1].start
                      /\ (k = Len(s) \/ s[k + 1].start # s[1].start)
         IN  Reverse(SubSeq(s, 1, n)) \o TieReverse(SubSeq(s, n + 1, Len(s)))

\* service.events().list(timeMin = start of day, timeMax = end of day,
\* singleEvents = True, orderBy = 'startTime'): the events that overlap the
\* day of local time t, ordered by start.
EventsList(c, t, rev) ==
    LET timeMin == FormatDatetimeForGoogle(AtHour(t, 0))
        timeMax == FormatDatetimeForGoogle(AtHour(t, 24))
        items == SelectSeq(c, LAMBDA e : e.end > timeMin /\ e.start < timeMax)
    IN  IF rev THEN TieReverse(items) ELSE items

\* The k-th calendar call of an operation fails when the store is failing
\* at that call: f = 0 is a healthy store, f = k one failed call, and
\* f = -k a store that is down from call k on.
CallFails(f, k) == (f > 0 /\ k = f) \/ (f < 0 /\ k >= -f)

CalendarError == "HttpError"

(***************************************************************************)
(* BookingPlatform._combine_events and its format_time                     *)
(***************************************************************************)
Absent == "<absent>"
NoDate == 0 - 1
NoneDate == 0 - 2
\* What stands for a timestamp that strptime rejects, and the text of the
\* ValueError it raises.
Unparseable == 0 - 3
StrptimeError == "time data does not match format '%Y-%m-%dT%H:%M:%S'"
TypeError == "strptime() argument 1 must be str, not int"
NoAvailableTimesFound == "No available times found"

\* Text is a sequence of characters and literal fragments.
DigitChars == <<"0", "1", "2", "3", "4", "5", "6", "7", "8", "9">>
DigitChar(d) == DigitChars[d + 1]

\* strftime('%I'): the hour of the 12-hour clock, zero-padded.
StrfI(hm) ==
    LET h == hm[1] * 10 + hm[2]
        h12 == IF h % 12 = 0 THEN 12 ELSE h % 12
    IN  <<DigitChar(h12 \div 10), DigitChar(h12 % 10)>>

\* str.lstrip('0')
RECURSIVE LStripZero(_)
LStripZero(s) ==
    IF s # <<>> /\ s[1] = "0" THEN LStripZero(Tail(s)) ELSE s

\* strftime('%M') and strftime('%p')
StrfM(hm) == <<DigitChar(hm[3]), DigitChar(hm[4])>>
StrfP(hm) == IF hm[1] * 10 + hm[2] < 12 THEN <<"A", "M">> ELSE <<"P", "M">>

\* A variant of format_time that leaves the minutes out.
FormatTimeHourOnly(hm) == LStripZero(StrfI(hm)) \o StrfP(hm)

\* format_time: the 12-hour token of an 'HH:MM' string: the hour without a
\* leading zero, the minutes when they are not '00', and AM or PM.
FormatTime(hm) ==
    IF StrfM(hm) = <<"0", "0">>
    THEN LStripZero(StrfI(hm)) \o StrfP(hm)
    ELSE LStripZero(StrfI(hm)) \o <<":">> \o StrfM(hm) \o StrfP(hm)

\* sorted(slots, key = start): a stable insertion of each slot.
RECURSIVE SortedSlots(_)
SortedSlots(slots) ==
    IF slots = <<>> THEN <<>>
    ELSE LET rest == SortedSlots(SubSeq(slots, 1, Len(slots) - 1))
             x == slots[Len(slots)]
             n == Cardinality({i \in 1..Len(rest) : StrLE(rest[i].start, x.start)})
         IN  SubSeq(rest, 1, n) \o <<x>> \o SubSeq(rest, n + 1, Len(rest))

\* The grouping loop: groups is the list of closed groups, current the open one.
RECURSIVE GroupLoop(_, _, _, _)
GroupLoop(sorted, i, groups, current) ==
    IF i > Len(sorted) THEN Append(groups, current)
    ELSE IF sorted[i].start = current[Len(current)].end
         THEN GroupLoop(sorted, i + 1, groups, Append(current, sorted[i]))
         ELSE GroupLoop(sorted, i + 1, Append(groups, current), <<sorted[i]>>)

ConsecutiveGroups(sorted) == GroupLoop(sorted, 2, <<>>, <<sorted[1]>>)

RangeThreshold == 3

\* A variant that shows a range from 4 slots on (an earlier revision).
GroupStringsFromFour(group) ==
    IF Len(group) >= RangeThreshold + 1
    THEN << <<"from ">> \o FormatTime(group[1].start)
               \o <<" to ">> \o FormatTime(group[Len(group)].start) >>
    ELSE [k \in 1..Len(group) |-> FormatTime(group[k].start)]

\* The time strings of one group: a range for 3 or more slots, otherwise the
\* start of each slot.
GroupStrings(group) ==
    IF Len(group) >= RangeThreshold
    THEN << <<"from ">> \o FormatTime(group[1].start)
               \o <<" to ">> \o FormatTime(group[Len(group)].start) >>
    ELSE [k \in 1..Len(group) |-> FormatTime(group[k].start)]

RECURSIVE TimeStrings(_)
TimeStrings(groups) ==
    IF groups = <<>> THEN <<>>
    ELSE GroupStrings(groups[1]) \o TimeStrings(SubSeq(groups, 2, Len(groups)))

\* ", ".join(time_strings)
RECURSIVE JoinComma(_)
JoinComma(strings) ==
    IF strings = <<>> THEN <<>>
    ELSE IF Len(strings) = 1 THEN strings[1]
    ELSE strings[1] \o <<", ">> \o JoinComma(Tail(strings))

\* _combine_events(slots, date, duration).  dateIsStr tells whether the date
\* argument is a string: datetime.strptime raises TypeError on anything else.
\* The result is the literal for no slots, or times, the ', '-joined
\* time_strings.
CombineEvents(slots, dateIsStr) ==
    IF slots = <<>>
    THEN [exc |-> "", literal |-> NoAvailableTimesFound, times |-> <<>>,
          time_strings |-> <<>>]
    ELSE IF ~dateIsStr
         THEN [exc |-> TypeError, literal |-> "", times |-> <<>>,
               time_strings |-> <<>>]
         ELSE [exc |-> "", literal |-> "",
               times |-> JoinComma(TimeStrings(ConsecutiveGroups(SortedSlots(slots)))),
               time_strings |-> TimeStrings(ConsecutiveGroups(SortedSlots(slots)))]

(***************************************************************************)
(* BookingPlatform.get_available_times                                     *)
(***************************************************************************)
\* A variant that books the whole day for an all-day event.
RECURSIVE BookedSlotsAllDayBlocks(_)
BookedSlotsAllDayBlocks(items) ==
    IF items = <<>> THEN <<>>
    ELSE (IF ~items[1].allDay
          THEN << <<StrfHM(LocalStart(items[1])), StrfHM(LocalEnd(items[1]))>> >>
          ELSE << << <<0, 0, 0, 0>>, <<2, 3, 5, 9>> >> >>)
         \o BookedSlotsAllDayBlocks(SubSeq(items, 2, Len(items)))

\* The (start, end) 'HH:MM' pairs of the timed events of a listing.
RECURSIVE BookedSlots(_)
BookedSlots(items) ==
    IF items = <<>> THEN <<>>
    ELSE (IF ~items[1].allDay
          THEN << <<StrfHM(LocalStart(items[1])), StrfHM(LocalEnd(items[1]))>> >>
          ELSE <<>>)
         \o BookedSlots(SubSeq(items, 2, Len(items)))

\* A variant with the two edge cases only: it misses a booked event that lies
\* strictly inside the candidate.
BaseOverlapEdgesOnly(cs, ce, bs, be) ==
    \/ (StrLE(bs, cs) /\ StrLT(cs, be))
    \/ (StrLT(bs, ce) /\ StrLE(ce, be))

\* The overlap test of the base platform, on 'HH:MM' strings.
BaseOverlap(cs, ce, bs, be) ==
    \/ (StrLE(bs, cs) /\ StrLT(cs, be))
    \/ (StrLT(bs, ce) /\ StrLE(ce, be))
    \/ (StrLE(cs, bs) /\ StrLE(be, ce))
    \/ (StrLE(bs, cs) /\ StrLE(ce, be))

\* A variant that lets a candidate run past the end of the business day.
SlotFitsUnchecked(slot_end, end_of_day) == TRUE

\* A candidate is considered only when it ends by the end of the business day.
SlotFits(slot_end, end_of_day) == slot_end <= end_of_day

\* A variant that skips only the candidates that start before the clock.
ElapsedTodayStrict(requested, current, nw) ==
    DayOf(requested) = DayOf(nw) /\ current < nw

\* On the current day a candidate that starts at or before the clock is skipped.
ElapsedToday(requested, current, nw) ==
    DayOf(requested) = DayOf(nw) /\ current <= nw

\* The slot loop of the base platform: available_slots when the loop ends.
RECURSIVE BaseSlotLoop(_, _, _, _, _, _)
BaseSlotLoop(current, endOfDay, requested, duration, booked, nw) ==
    IF ~(current < endOfDay) THEN <<>>
    ELSE IF ElapsedToday(requested, current, nw)
         THEN BaseSlotLoop(current + SlotStep, endOfDay, requested, duration,
                           booked, nw)
         ELSE LET slotEnd == current + duration
                  cs == StrfHM(current)
                  ce == StrfHM(slotEnd)
                  free == \A k \in 1..Len(booked) :
                              ~BaseOverlap(cs, ce, booked[k][1], booked[k][2])
              IN  (IF SlotFits(slotEnd, endOfDay) /\ free
                   THEN <<[start |-> cs, end |-> ce]>>
                   ELSE <<>>)
                  \o BaseSlotLoop(current + SlotStep, endOfDay, requested,
                                  duration, booked, nw)

BaseAvailableSlots(timestamp, items, duration, nw) ==
    IF DayOf(timestamp) < DayOf(nw) THEN <<>>
    ELSE BaseSlotLoop(AtHour(timestamp, DEFAULT_START_HOUR),
                      AtHour(timestamp, DEFAULT_END_HOUR),
                      timestamp, duration, BookedSlots(items), nw)

DateBeforeToday ==
    "Requested date is before today. Can you please provide a date on or after today?"

\* strftime('%A, %B %d') of a day.  Day 1 is Wednesday 2024-03-20; the days
\* of the model lie in March and April 2024.
WeekdayNames ==
    <<"Monday", "Tuesday", "Wednesday", "Thursday", "Friday", "Saturday", "Sunday">>

\* A variant that puts the 'YYYY-MM-DD' date into the message.
FormattedDateIso(day) ==
    LET march == day + 19 <= 31
        d == IF march THEN day + 19 ELSE day + 19 - 31
    IN  <<"2024", "-", IF march THEN "03" ELSE "04", "-",
          DigitChar(d \div 10), DigitChar(d % 10)>>

FormattedDate(day) ==
    LET a == WeekdayNames[((day + 1) % 7) + 1]
        march == day + 19 <= 31
        b == IF march THEN "March" ELSE "April"
        d == IF march THEN day + 19 ELSE day + 19 - 31
    IN  <<a, ", ", b, " ", DigitChar(d \div 10), DigitChar(d % 10)>>

\* BookingPlatform.get_available_times(timestamp, {'bookedEvents': items},
\* duration), with the clock reading nw.  keys are the keys of the returned
\* dict; generated is available_slots as the function leaves it,
\* combined_slots what _combine_events returned for it: the literal for no
\* slots, otherwise the text times.
BaseGetAvailableTimes(timestamp, items, duration, nw) ==
    LET slots == BaseAvailableSlots(timestamp, items, duration, nw)
        combined == CombineEvents(slots, TRUE)
    IN  IF DayOf(timestamp) < DayOf(nw)
        THEN [keys |-> {"message", "date"},
              message |-> DateBeforeToday,
              times |-> <<>>,
              combined_slots |-> Absent,
              date |-> DayOf(timestamp),
              availability_found |-> FALSE,
              generated |-> <<>>]
        ELSE [keys |-> {"message", "date", "availability_found"},
              message |-> IF slots # <<>>
                          THEN <<"Available ">> \o FormattedDate(DayOf(timestamp))
                                   \o <<": ">> \o combined.times
                          ELSE <<"No available times found on ">>
                                   \o FormattedDate(DayOf(timestamp)),
              times |-> IF slots # <<>> THEN combined.times ELSE <<>>,
              combined_slots |-> IF slots # <<>> THEN combined.times
                                 ELSE combined.literal,
              date |-> DayOf(timestamp),
              availability_found |-> slots # <<>>,
              generated |-> slots]

(***************************************************************************)
(* GoogleCalendarPlatform                                                  *)
(***************************************************************************)
\* A returned dict: its keys and their values (a value that is not among the
\* keys is a filler).  message is the list of the parts of the f-string.
Result(keys, success, message, slots, date) ==
    [keys |-> keys, success |-> success, message |-> message,
     slots |-> slots, date |-> date]

Failure(message) == Result({"success", "message"}, FALSE, message, Absent, NoDate)
Success(message) == Result({"success", "message"}, TRUE, message, Absent, NoDate)

\* One entry of the trace of an operation: a calendar call (list, insert,
\* delete) or a call of another operation of the platform, with what the
\* call returned (ret.success is FALSE for a calendar call that raised).
Invocation(what, ts, phone, ret) ==
    [call |-> what, ts |-> ts, phone |-> phone, ret |-> ret]

Call(what, ts, phone) == Invocation(what, ts, phone, Success(<<>>))
Raised(what, ts, phone) == Invocation(what, ts, phone, Failure(<<CalendarError>>))

ApiCalls(calls) ==
    SelectSeq(calls, LAMBDA x : x.call \in {"list", "insert", "delete"})

\* What an operation leaves: the store, the dict it returns and its trace.
Outcome(c, res, calls) == [cal |-> c, res |-> res, calls |-> calls]

\* The overlap test of the override, on 'HH:MM' strings.
GoogleOverlap(cs, ce, bs, be) ==
    \/ (StrLE(bs, cs) /\ StrLT(cs, be))
    \/ (StrLT(bs, ce) /\ StrLE(ce, be))

RECURSIVE GoogleSlotLoop(_, _, _, _)
GoogleSlotLoop(current, endOfDay, duration, booked) ==
    IF ~(current < endOfDay) THEN <<>>
    ELSE LET slotEnd == current + duration
             cs == StrfHM(current)
             ce == StrfHM(slotEnd)
             free == \A k \in 1..Len(booked) :
                         ~GoogleOverlap(cs, ce, booked[k][1], booked[k][2])
         IN  (IF SlotFits(slotEnd, endOfDay) /\ free
              THEN <<[start |-> cs, end |-> ce]>>
              ELSE <<>>)
             \o GoogleSlotLoop(current + SlotStep, endOfDay, duration, booked)

GoogleAvailableSlots(timestamp, items, duration) ==
    GoogleSlotLoop(AtHour(timestamp, DEFAULT_START_HOUR),
                   AtHour(timestamp, DEFAULT_END_HOUR),
                   duration, BookedSlots(items))

\* GoogleCalendarPlatform.get_available_times: it hands the duration to
\* _combine_events where the date string belongs.  exc is the exception it
\* raises ("" for none); slots and date are the returned dict.
GoogleGetAvailableTimes(timestamp, items, duration) ==
    LET generated == GoogleAvailableSlots(timestamp, items, duration)
        combined == CombineEvents(generated, FALSE)
    IN  [exc |-> combined.exc,
         slots |-> combined.literal,
         date |-> DayOf(timestamp),
         generated |-> generated]

InBusinessHours(start_time) ==
    DEFAULT_START_HOUR <= HourOf(start_time) /\ HourOf(start_time) < DEFAULT_END_HOUR

OutsideHoursMessage == <<"Appointments must be between 9:00 and 17:00">>

\* A variant of the conflict test that counts touching intervals as a conflict.
HasConflictInclusive(items, start_time, end_time) ==
    \E i \in 1..Len(items) :
        /\ ~items[i].allDay
        /\ start_time <= LocalEnd(items[i])
        /\ end_time >= LocalStart(items[i])

\* A variant that sees a conflict only when the request starts inside an event.
HasConflictStartInside(items, start_time, end_time) ==
    \E i \in 1..Len(items) :
        /\ ~items[i].allDay
        /\ LocalStart(items[i]) <= start_time
        /\ start_time < LocalEnd(items[i])

\* The conflict loop of book_appointment: some timed event of the listing
\* overlaps [start_time, end_time).
HasConflict(items, start_time, end_time) ==
    \E i \in 1..Len(items) :
        /\ ~items[i].allDay
        /\ start_time < LocalEnd(items[i])
        /\ end_time > LocalStart(items[i])

\* What book_appointment returns from inside the conflict loop.
ConflictResult(timestamp, items, duration) ==
    LET available_times == GoogleGetAvailableTimes(timestamp, items, duration)
    IN  IF available_times.exc # ""
        THEN Failure(<<"Error booking appointment: ", available_times.exc>>)
        ELSE Result({"success", "message", "available_slots", "date"}, FALSE,
                    <<"Time slot is already booked">>,
                    available_times.slots, available_times.date)

\* The event book_appointment creates.
BookedEvent(name, timestamp, phone_number, duration) ==
    TimedEvent(name, timestamp, timestamp + duration, TRUE, phone_number)

\* A variant that issues the insert a second time when the first one raised.
BookAfterListRetrying(c, items, name, timestamp, phone_number, duration, f, k0) ==
    IF HasConflict(items, timestamp, timestamp + duration)
    THEN Outcome(c, ConflictResult(timestamp, items, duration),
                 <<Call("list", AtHour(timestamp, 0), <<>>)>>)
    ELSE Outcome(StoreInsert(c, BookedEvent(name, timestamp, phone_number, duration)),
                 Success(<<"Appointment booked successfully">>),
                 <<Call("list", AtHour(timestamp, 0), <<>>)>>
                 \o (IF CallFails(f, k0 + 2)
                     THEN <<Raised("insert", timestamp, phone_number)>>
                     ELSE <<>>)
                 \o <<Call("insert", timestamp, phone_number)>>)

\* book_appointment from the conflict loop on: items is the listing it read,
\* c the store as it is when the event is inserted.
BookAfterList(c, items, name, timestamp, phone_number, duration, f, k0) ==
    IF HasConflict(items, timestamp, timestamp + duration)
    THEN Outcome(c, ConflictResult(timestamp, items, duration),
                 <<Call("list", AtHour(timestamp, 0), <<>>)>>)
    ELSE IF CallFails(f, k0 + 2)
    THEN Outcome(c, Failure(<<"Error booking appointment: ", CalendarError>>),
                 <<Call("list", AtHour(timestamp, 0), <<>>),
                   Raised("insert", timestamp, phone_number)>>)
    ELSE Outcome(StoreInsert(c, BookedEvent(name, timestamp, phone_number, duration)),
                 Success(<<"Appointment booked successfully">>),
                 <<Call("list", AtHour(timestamp, 0), <<>>),
                   Call("insert", timestamp, phone_number)>>)

\* GoogleCalendarPlatform.book_appointment.  f tells which calendar call
\* fails, k0 is the number of calendar calls made before this one, rev the
\* order in which the store lists events of equal start.
BookAppointment(c, name, timestamp, phone_number, duration, f, k0, rev) ==
    IF timestamp = Unparseable
    THEN Outcome(c, Failure(<<"Error booking appointment: ", StrptimeError>>), <<>>)
    ELSE IF ~InBusinessHours(timestamp)
    THEN Outcome(c, Failure(OutsideHoursMessage), <<>>)
    ELSE IF CallFails(f, k0 + 1)
    THEN Outcome(c, Failure(<<"Error booking appointment: ", CalendarError>>),
                 <<Raised("list", AtHour(timestamp, 0), <<>>)>>)
    ELSE BookAfterList(c, EventsList(c, timestamp, rev), name, timestamp,
                       phone_number, duration, f, k0)

\* A variant of the matching loop that matches on the phone number alone.
RECURSIVE CancelLoopAnyTime(_, _, _, _, _, _, _)
CancelLoopAnyTime(c, items, i, target_time, phone_number, f, k0) ==
    IF i > Len(items)
    THEN Outcome(c, Failure(<<"No matching appointment found">>), <<>>)
    ELSE IF items[i].allDay
    THEN Outcome(c, Failure(<<"Error cancelling appointment: ", "'dateTime'">>), <<>>)
    ELSE IF PhoneInDescription(phone_number, items[i])
    THEN IF CallFails(f, k0 + 2)
         THEN Outcome(c, Failure(<<"Error cancelling appointment: ", CalendarError>>),
                      <<Raised("delete", LocalStart(items[i]), items[i].phone)>>)
         ELSE Outcome(StoreDelete(c, items[i]),
                      Success(<<"Appointment cancelled successfully">>),
                      <<Call("delete", LocalStart(items[i]), items[i].phone)>>)
    ELSE CancelLoopAnyTime(c, items, i + 1, target_time, phone_number, f, k0)

\* The matching loop of cancel_appointment from item i on.  Reading
\* event['start']['dateTime'] of an all-day event raises KeyError.
RECURSIVE CancelLoop(_, _, _, _, _, _, _)
CancelLoop(c, items, i, target_time, phone_number, f, k0) ==
    IF i > Len(items)
    THEN Outcome(c, Failure(<<"No matching appointment found">>), <<>>)
    ELSE IF items[i].allDay
    THEN Outcome(c, Failure(<<"Error cancelling appointment: ", "'dateTime'">>), <<>>)
    ELSE IF LocalStart(items[i]) = target_time
            /\ PhoneInDescription(phone_number, items[i])
    THEN IF CallFails(f, k0 + 2)
         THEN Outcome(c, Failure(<<"Error cancelling appointment: ", CalendarError>>),
                      <<Raised("delete", LocalStart(items[i]), items[i].phone)>>)
         ELSE Outcome(StoreDelete(c, items[i]),
                      Success(<<"Appointment cancelled successfully">>),
                      <<Call("delete", LocalStart(items[i]), items[i].phone)>>)
    ELSE CancelLoop(c, items, i + 1, target_time, phone_number, f, k0)

\* GoogleCalendarPlatform.cancel_appointment
CancelAppointment(c, timestamp, phone_number, f, k0, rev) ==
    LET list == Call("list", AtHour(timestamp, 0), <<>>)
        raised == Raised("list", AtHour(timestamp, 0), <<>>)
        found == CancelLoop(c, EventsList(c, timestamp, rev), 1, timestamp,
                            phone_number, f, k0)
    IN  IF timestamp = Unparseable
        THEN Outcome(c, Failure(<<"Error cancelling appointment: ", StrptimeError>>),
                     <<>>)
        ELSE IF CallFails(f, k0 + 1)
        THEN Outcome(c, Failure(<<"Error cancelling appointment: ", CalendarError>>),
                     <<raised>>)
        ELSE Outcome(found.cal, found.res, <<list>> \o found.calls)

\* A variant that reports the failed cancellation without cancelling the
\* new booking.
RescheduleWithoutUndo(booking, cancel, phone_number, old_timestamp, new_timestamp, undo) ==
    IF ~cancel.res.success
    THEN Outcome(cancel.cal,
                 Failure(<<"Failed to cancel old appointment: ">>
                             \o cancel.res.message),
                 <<Invocation("book_appointment", new_timestamp, phone_number, booking.res)>>
                     \o booking.calls
                     \o <<Invocation("cancel_appointment", old_timestamp, phone_number, cancel.res)>>
                     \o cancel.calls)
    ELSE Outcome(cancel.cal, Success(<<"Appointment rescheduled successfully">>),
                 <<Invocation("book_appointment", new_timestamp, phone_number, booking.res)>>
                     \o booking.calls
                     \o <<Invocation("cancel_appointment", old_timestamp, phone_number, cancel.res)>>
                     \o cancel.calls)

\* reschedule_appointment once the old appointment's cancellation has
\* returned: the compensating cancel of the new booking when it failed.
RescheduleAfterCancel(booking, cancel, phone_number, old_timestamp, new_timestamp, undo) ==
    IF ~cancel.res.success
    THEN Outcome(undo.cal,
                 Failure(<<"Failed to cancel old appointment: ">>
                             \o cancel.res.message),
                 <<Invocation("book_appointment", new_timestamp, phone_number, booking.res)>>
                     \o booking.calls
                     \o <<Invocation("cancel_appointment", old_timestamp, phone_number, cancel.res)>>
                     \o cancel.calls
                     \o <<Invocation("cancel_appointment", new_timestamp, phone_number, undo.res)>>
                     \o undo.calls)
    ELSE Outcome(cancel.cal, Success(<<"Appointment rescheduled successfully">>),
                 <<Invocation("book_appointment", new_timestamp, phone_number, booking.res)>>
                     \o booking.calls
                     \o <<Invocation("cancel_appointment", old_timestamp, phone_number, cancel.res)>>
                     \o cancel.calls)

\* A variant that goes on to cancel the old appointment whatever the booking
\* returned.
RescheduleUnchecked(booking, cancel, phone_number, old_timestamp, new_timestamp, f, rev) ==
    RescheduleAfterCancel(booking, cancel, phone_number, old_timestamp,
        new_timestamp,
        CancelAppointment(cancel.cal, new_timestamp, phone_number, f,
            Len(ApiCalls(booking.calls)) + Len(ApiCalls(cancel.calls)), rev))

\* reschedule_appointment once the booking of the new time has returned.
RescheduleAfterBook(booking, cancel, phone_number, old_timestamp, new_timestamp, f, rev) ==
    IF ~booking.res.success
    THEN Outcome(booking.cal, booking.res,
                 <<Invocation("book_appointment", new_timestamp, phone_number, booking.res)>>
                     \o booking.calls)
    ELSE RescheduleAfterCancel(booking, cancel, phone_number, old_timestamp,
             new_timestamp,
             CancelAppointment(cancel.cal, new_timestamp, phone_number, f,
                 Len(ApiCalls(booking.calls)) + Len(ApiCalls(cancel.calls)), rev))

RescheduleWithBooking(booking, phone_number, old_timestamp, new_timestamp, f, rev) ==
    RescheduleAfterBook(booking,
        CancelAppointment(booking.cal, old_timestamp, phone_number, f,
                          Len(ApiCalls(booking.calls)), rev),
        phone_number, old_timestamp, new_timestamp, f, rev)

\* A variant that cancels the old appointment first and books afterwards.
RescheduleCancelFirst(c, name, phone_number, old_timestamp, new_timestamp, f, rev) ==
    Outcome(
        BookAppointment(
            CancelAppointment(c, old_timestamp, phone_number, f, 0, rev).cal,
            name, new_timestamp, phone_number, DefaultDuration, f, 2, rev).cal,
        BookAppointment(
            CancelAppointment(c, old_timestamp, phone_number, f, 0, rev).cal,
            name, new_timestamp, phone_number, DefaultDuration, f, 2, rev).res,
        <<Invocation("cancel_appointment", old_timestamp, phone_number,
                     CancelAppointment(c, old_timestamp, phone_number, f, 0, rev).res)>>
        \o CancelAppointment(c, old_timestamp, phone_number, f, 0, rev).calls
        \o <<Invocation("book_appointment", new_timestamp, phone_number,
                 BookAppointment(
                     CancelAppointment(c, old_timestamp, phone_number, f, 0, rev).cal,
                     name, new_timestamp, phone_number, DefaultDuration, f, 2, rev).res)>>
        \o BookAppointment(
               CancelAppointment(c, old_timestamp, phone_number, f, 0, rev).cal,
               name, new_timestamp, phone_number, DefaultDuration, f, 2, rev).calls)

\* GoogleCalendarPlatform.reschedule_appointment
RescheduleAppointment(c, name, phone_number, old_timestamp, new_timestamp, f, rev) ==
    RescheduleWithBooking(
        BookAppointment(c, name, new_timestamp, phone_number, DefaultDuration,
                        f, 0, rev),
        phone_number, old_timestamp, new_timestamp, f, rev)

\* datetime.now() without a timezone: the clock of the host, which runs in UTC.
SystemNow(nw) == FormatDatetimeForGoogle(nw)

AvailabilityResult(success, message, slots, date) ==
    Result({"success", "message", "slots", "date"}, success, message, slots, date)

\* The day loop of get_availability.  date is the day asked for, or NoDate.
RECURSIVE AvailabilityLoop(_, _, _, _, _, _, _, _)
AvailabilityLoop(c, check_date, days_checked, duration, date, f, rev, calls) ==
    LET list == Call("list", AtHour(check_date, 0), <<>>)
        raised == Raised("list", AtHour(check_date, 0), <<>>)
        items == EventsList(c, check_date, rev)
        timestamp == AtHour(check_date, DEFAULT_START_HOUR)
        available_times == GoogleGetAvailableTimes(timestamp, items, duration)
    IN  IF ~(days_checked < max_days_to_check)
        THEN Outcome(c, AvailabilityResult(FALSE,
                          <<"No available slots found in the next two weeks">>,
                          "[]", NoneDate), calls)
        ELSE IF CallFails(f, days_checked + 1)
        THEN Outcome(c, AvailabilityResult(FALSE,
                          <<"Error getting available slots: ", CalendarError>>,
                          "[]", NoneDate), Append(calls, raised))
        ELSE IF available_times.exc # ""
        THEN Outcome(c, AvailabilityResult(FALSE,
                          <<"Error getting available slots: ", available_times.exc>>,
                          "[]", NoneDate), Append(calls, list))
        ELSE IF available_times.slots # "" \/ date # NoDate
        THEN Outcome(c, AvailabilityResult(TRUE, <<"Available slots found">>,
                          available_times.slots, available_times.date),
                     Append(calls, list))
        ELSE AvailabilityLoop(c, check_date + MinutesPerDay, days_checked + 1,
                              duration, date, f, rev, Append(calls, list))

\* GoogleCalendarPlatform.get_availability(duration, date)
GetAvailability(c, duration, date, f, rev, nw) ==
    AvailabilityLoop(c,
                     IF date # NoDate THEN date * MinutesPerDay
                     ELSE SystemNow(nw) + MinutesPerDay,
                     0, duration, date, f, rev, <<>>)

(***************************************************************************)
(* The inputs of the model                                                 *)
(***************************************************************************)
Names == {"Ann"}
Phones == {<<5>>, <<5, 5>>}
Durations == {30, 60}
QueryDurations == {15, 30, 45, 90, 480}
Timestamps ==
    {At(Today, 9, 0), At(Tomorrow, 8, 30), At(Tomorrow, 9, 0),
     At(Tomorrow, 9, 30), At(Tomorrow, 16, 45), At(Tomorrow, 17, 0)}
QueryDays == {Yesterday, Today, Tomorrow}
OldTimestamps == {t \in Timestamps : InBusinessHours(t)}
NowTimes == {At(1, 8, 0), At(1, 9, 30), At(1, 14, 30)}
OneCallFails == 0..2
RescheduleFails == {0 - 4, 0 - 3} \cup 0..6
ExternalEvents ==
    {AllDayEvent("External", Tomorrow),
     TimedEvent("External", At(Tomorrow, 8, 0), At(Tomorrow, 20, 30), FALSE, <<>>)}
Procs == {"a", "b"}

RaceTimestamps == {At(Tomorrow, 9, 0), At(Tomorrow, 9, 30), At(Tomorrow, 17, 0)}

\* The orders in which the store may list the events of c: events of equal
\* start come in either order.
TieOrders(c) ==
    IF \E i \in 1..(Len(c) - 1) : c[i].start = c[i + 1].start
    THEN BOOLEAN ELSE {FALSE}

NoLast == [op |-> "none"]
IdleProc == [pc |-> "idle"]

(***************************************************************************)
(* Sequential operation: one request is served to completion at a time.   *)
(***************************************************************************)
Init ==
    /\ cal = <<>>
    /\ now = At(1, 8, 0)
    /\ last = NoLast
    /\ procs = [p \in Procs |-> IdleProc]

\* An operation is served: the store takes its effect and the result waits
\* to be returned.
Serve(op, args, out) ==
    /\ last = NoLast
    /\ cal' = out.cal
    /\ last' = [op |-> op, args |-> args, res |-> out.res, calls |-> out.calls,
                before |-> cal]
    /\ UNCHANGED <<now, procs>>

DoBookAppointment ==
    \E name \in Names, timestamp \in Timestamps, phone \in Phones,
       duration \in Durations, f \in OneCallFails :
        /\ Len(cal) < MaxEvents
        /\ Serve("book_appointment",
                 [name |-> name, timestamp |-> timestamp, phone |-> phone,
                  duration |-> duration, fault |-> f],
                 BookAppointment(cal, name, timestamp, phone, duration, f, 0, FALSE))

DoCancelAppointment ==
    \E timestamp \in Timestamps, phone \in Phones, f \in OneCallFails,
       rev \in TieOrders(cal) :
        Serve("cancel_appointment",
              [timestamp |-> timestamp, phone |-> phone, fault |-> f],
              CancelAppointment(cal, timestamp, phone, f, 0, rev))

DoRescheduleAppointment ==
    \E name \in Names, phone \in Phones, old \in OldTimestamps,
       new \in Timestamps, f \in RescheduleFails, rev \in TieOrders(cal) :
        /\ Len(cal) < MaxEvents
        /\ Serve("reschedule_appointment",
                 [name |-> name, phone |-> phone, old_timestamp |-> old,
                  new_timestamp |-> new, fault |-> f],
                 RescheduleAppointment(cal, name, phone, old, new, f, rev))

DoGetAvailability ==
    \E duration \in QueryDurations, date \in QueryDays \cup {NoDate},
       f \in {0, 1} :
        Serve("get_availability",
              [duration |-> duration, date |-> date, fault |-> f],
              GetAvailability(cal, duration, date, f, FALSE, now))

\* BookingPlatform.get_available_times on the listing of a day.
DoGetAvailableTimes ==
    \E day \in QueryDays, duration \in QueryDurations :
        Serve("get_available_times",
              [timestamp |-> At(day, 10, 0), duration |-> duration,
               items |-> EventsList(cal, At(day, 10, 0), FALSE)],
              Outcome(cal,
                      BaseGetAvailableTimes(At(day, 10, 0),
                          EventsList(cal, At(day, 10, 0), FALSE), duration, now),
                      <<>>))

\* Somebody else writes an event into the shared calendar.
ExternalAdd ==
    \E e \in ExternalEvents :
        /\ last = NoLast
        /\ Len(cal) < MaxEvents
        /\ \A i \in 1..Len(cal) : cal[i] # e
        /\ cal' = StoreInsert(cal, e)
        /\ last' = NoLast
        /\ UNCHANGED <<now, procs>>

\* The handler returns its result to the caller; the next request may come.
Return ==
    /\ last # NoLast
    /\ last' = NoLast
    /\ UNCHANGED <<cal, now, procs>>

Next ==
    \/ DoBookAppointment
    \/ DoCancelAppointment
    \/ DoRescheduleAppointment
    \/ DoGetAvailability
    \/ DoGetAvailableTimes
    \/ ExternalAdd
    \/ Return

Spec == Init /\ [][Next]_vars

(***************************************************************************)
(* The availability computation on its own: any small set of events that   *)
(* other users of the calendar may have put on a day, any reading of the   *)
(* clock.                                                                  *)
(***************************************************************************)
ExternalPool(day) ==
    {TimedEvent("External", At(day, 9, 0), At(day, 9, 30), FALSE, <<>>),
     TimedEvent("External", At(day, 9, 10), At(day, 9, 20), FALSE, <<>>),
     TimedEvent("External", At(day, 9, 30), At(day, 10, 30), FALSE, <<>>),
     TimedEvent("External", At(day, 12, 0), At(day, 12, 15), FALSE, <<>>),
     TimedEvent("External", At(day, 16, 30), At(day, 17, 0), FALSE, <<>>),
     TimedEvent("External", At(day, 16, 45), At(day, 17, 15), FALSE, <<>>),
     TimedEvent("External", At(day, 8, 30), At(day, 9, 0), FALSE, <<>>),
     TimedEvent("External", At(day, 17, 0), At(day, 17, 30), FALSE, <<>>),
     TimedEvent("External", At(day, 8, 0), At(day, 20, 30), FALSE, <<>>),
     AllDayEvent("External", day)}

RECURSIVE StoreOf(_)
StoreOf(S) ==
    IF S = {} THEN <<>>
    ELSE LET e == CHOOSE x \in S : TRUE
         IN  StoreInsert(StoreOf(S \ {e}), e)

InitAvail ==
    /\ now \in NowTimes
    /\ \E day \in {Today, Tomorrow} :
           cal \in {StoreOf(S) : S \in {T \in SUBSET ExternalPool(day) :
                                            Cardinality(T) <= MaxEvents}}
    /\ last = NoLast
    /\ procs = [p \in Procs |-> IdleProc]

NextAvail == DoGetAvailableTimes \/ Return

SpecAvail == InitAvail /\ [][NextAvail]_vars

(***************************************************************************)
(* Concurrent invocations of book_appointment: each lambda invocation      *)
(* reads the day's events and then inserts, with no lock between the two.  *)
(***************************************************************************)
\* Invocation p validates its request and lists the day's events.
BookList(p) ==
    \E name \in Names, timestamp \in RaceTimestamps, phone \in Phones,
       duration \in Durations :
        /\ procs[p].pc = "idle"
        /\ procs' = [procs EXCEPT ![p] =
               IF ~InBusinessHours(timestamp)
               THEN [pc |-> "done", name |-> name, timestamp |-> timestamp,
                     phone |-> phone, duration |-> duration, items |-> <<>>,
                     res |-> Failure(OutsideHoursMessage)]
               ELSE [pc |-> "listed", name |-> name, timestamp |-> timestamp,
                     phone |-> phone, duration |-> duration,
                     items |-> EventsList(cal, timestamp, FALSE),
                     res |-> Failure(<<>>)]]
        /\ UNCHANGED <<cal, now, last>>

BookCommitted(p, out) ==
    /\ cal' = out.cal
    /\ procs' = [procs EXCEPT ![p].pc = "done", ![p].res = out.res]
    /\ UNCHANGED <<now, last>>

\* Invocation p checks the events it listed and inserts its event.
BookCommit(p) ==
    /\ procs[p].pc = "listed"
    /\ BookCommitted(p, BookAfterList(cal, procs[p].items, procs[p].name,
                                      procs[p].timestamp, procs[p].phone,
                                      procs[p].duration, 0, 0))

\* A reschedule is served on the calendar the invocations have left.
RescheduleAfterRace ==
    \E name \in Names, phone \in Phones, old \in RaceTimestamps,
       new \in RaceTimestamps, rev \in TieOrders(cal) :
        /\ \A p \in Procs : procs[p].pc = "done"
        /\ Serve("reschedule_appointment",
                 [name |-> name, phone |-> phone, old_timestamp |-> old,
                  new_timestamp |-> new, fault |-> 0],
                 RescheduleAppointment(cal, name, phone, old, new, 0, rev))

NextConc ==
    \/ \E p \in Procs : BookList(p) \/ BookCommit(p)
    \/ RescheduleAfterRace
    \/ Return

SpecConc == Init /\ [][NextConc]_vars

(***************************************************************************)
(* Properties of BookingPlatform.get_available_times (SpecAvail)           *)
(***************************************************************************)
OpeningMinute == DEFAULT_START_HOUR * 60
ClosingMinute == DEFAULT_END_HOUR * 60

\* The candidate starts of a day, as minutes of the day.
CandidateStarts ==
    {OpeningMinute + SlotStep * k :
        k \in 0..((ClosingMinute - OpeningMinute) \div SlotStep - 1)}

\* The slot list of the answer holds a slot starting at minute m of the day.
Offered(m) ==
    \E i \in 1..Len(last.res.generated) :
        MinutesOfHM(last.res.generated[i].start) = m

\* C1: every slot get_available_times of the base platform yields starts at
\* or after 09:00, ends at or before 17:00 and has the full requested length:
\* a trailing candidate that would cross 17:00 is left out, not cut short.
C1_SlotsWithinBusinessHours ==
    last.op = "get_available_times" =>
        /\ \A i \in 1..Len(last.res.generated) :
               /\ MinutesOfHM(last.res.generated[i].start) >= OpeningMinute
               /\ MinutesOfHM(last.res.generated[i].end) <= ClosingMinute
               /\ MinutesOfHM(last.res.generated[i].end)
                      - MinutesOfHM(last.res.generated[i].start)
                    = last.args.duration
        /\ \A m \in CandidateStarts :
               m + last.args.duration > ClosingMinute => ~Offered(m)

\* A 45 minute query on a free day: 16:00 is offered, 16:30 is not.
C1_TrailingSlotDropped ==
    /\ last.op = "get_available_times"
    /\ last.args.duration = 45
    /\ last.args.items = <<>>
    /\ Offered(16 * 60)
    /\ ~Offered(16 * 60 + 30)

\* The half-open intervals [cs, ce) and [bs, be) share a minute.
ShareAnInstant(cs, ce, bs, be) ==
    \E m \in cs..(ce - 1) : bs <= m /\ m < be

\* The timed events of the listing the query was given.
TimedItems ==
    {i \in 1..Len(last.args.items) : ~last.args.items[i].allDay}

\* The candidate starting at minute m of the queried day is in business hours
\* and, on the current day, later than the clock.
EligibleCandidate(m) ==
    /\ m + last.args.duration <= ClosingMinute
    /\ ~(DayOf(last.args.timestamp) = Today
           /\ AtHour(last.args.timestamp, 0) + m <= now)

\* C2: with a duration and booked timed events that lie inside the day,
\* get_available_times of the base platform keeps an eligible candidate
\* exactly when its interval shares no instant with any booked timed event
\* (intervals half-open).
C2_KeptIffNoOverlap ==
    (/\ last.op = "get_available_times"
     /\ DayOf(last.args.timestamp) >= Today
     /\ TimedItems # {}) =>
        \A m \in CandidateStarts :
            EligibleCandidate(m) =>
                (Offered(m) <=>
                    \A i \in TimedItems :
                        ~ShareAnInstant(
                            m, m + last.args.duration,
                            MinuteOfDay(LocalStart(last.args.items[i])),
                            MinuteOfDay(LocalStart(last.args.items[i]))
                              + (LocalEnd(last.args.items[i])
                                   - LocalStart(last.args.items[i]))))

\* A booked event 09:10-09:20 lies strictly inside the candidate 09:00-09:30,
\* which is left out, while 10:00 is offered.
C2_ContainedEventBlocks ==
    /\ last.op = "get_available_times"
    /\ DayOf(last.args.timestamp) = Tomorrow
    /\ last.args.duration = 30
    /\ \E i \in TimedItems :
           /\ MinuteOfDay(LocalStart(last.args.items[i])) = 9 * 60 + 10
           /\ MinuteOfDay(LocalEnd(last.args.items[i])) = 9 * 60 + 20
    /\ ~Offered(9 * 60)
    /\ Offered(10 * 60)

(***************************************************************************)
(* Properties of book_appointment (Spec)                                   *)
(***************************************************************************)
\* The calendar before the call holds a timed event that shares an instant
\* with [timestamp, timestamp + duration).
OverlapsExisting(timestamp, duration) ==
    \E i \in 1..Len(last.before) :
        /\ ~last.before[i].allDay
        /\ ShareAnInstant(timestamp, timestamp + duration,
                          LocalStart(last.before[i]), LocalEnd(last.before[i]))

\* The interval of the request lies within the business hours of its day.
InHoursInterval(timestamp, duration) ==
    /\ AtHour(timestamp, DEFAULT_START_HOUR) <= timestamp
    /\ timestamp + duration <= AtHour(timestamp, DEFAULT_END_HOUR)

Writes(calls) == SelectSeq(calls, LAMBDA x : x.call \in {"insert", "delete"})

\* C3: book_appointment for an in-hours interval that overlaps an existing
\* timed event returns success=false with the message 'Time slot is already
\* booked', the alternate times and the date, and makes no insert and no
\* delete call.
C3_ConflictReportsAlternates ==
    (/\ last.op = "book_appointment"
     /\ last.args.fault = 0
     /\ InHoursInterval(last.args.timestamp, last.args.duration)
     /\ OverlapsExisting(last.args.timestamp, last.args.duration)) =>
        /\ ~last.res.success
        /\ last.res.message = <<"Time slot is already booked">>
        /\ {"available_slots", "date"} \subseteq last.res.keys
        /\ last.res.date = DayOf(last.args.timestamp)
        /\ Writes(last.calls) = <<>>
        /\ cal = last.before

\* C4: book_appointment rejects, without any calendar call, every request
\* that starts before 09:00, starts at 17:00 or later, or ends after 17:00.
C4_OutsideHoursRejected ==
    (/\ last.op = "book_appointment"
     /\ \/ HourOf(last.args.timestamp) < DEFAULT_START_HOUR
        \/ HourOf(last.args.timestamp) >= DEFAULT_END_HOUR
        \/ last.args.timestamp + last.args.duration
              > AtHour(last.args.timestamp, DEFAULT_END_HOUR)) =>
        /\ ~last.res.success
        /\ last.calls = <<>>
        /\ cal = last.before

(***************************************************************************)
(* Properties of reschedule_appointment (Spec)                             *)
(***************************************************************************)
\* The calls reschedule_appointment made of book_appointment and
\* cancel_appointment, in order.
Subcalls ==
    SelectSeq(last.calls,
              LAMBDA x : x.call \in {"book_appointment", "cancel_appointment"})

IsSubcall(x, what, ts) ==
    x.call = what /\ x.ts = ts /\ x.phone = last.args.phone

BookingSucceeded ==
    /\ last.op = "reschedule_appointment"
    /\ Len(Subcalls) >= 1
    /\ Subcalls[1].ret.success

OldCancelFailed ==
    /\ BookingSucceeded
    /\ Len(Subcalls) >= 2
    /\ ~Subcalls[2].ret.success

\* C5: in reschedule_appointment, when booking the new time succeeds and
\* cancelling the old appointment fails, exactly one compensating
\* cancel_appointment(new_timestamp, phone_number) follows the failed cancel,
\* and the result is success=false with the message 'Failed to cancel old
\* appointment: ' followed by the message of the failed cancel.
C5_CompensatingCancel ==
    last.op = "reschedule_appointment" =>
        /\ Len(Subcalls) >= 1
        /\ IsSubcall(Subcalls[1], "book_appointment", last.args.new_timestamp)
        /\ BookingSucceeded =>
               /\ Len(Subcalls) >= 2
               /\ IsSubcall(Subcalls[2], "cancel_appointment",
                            last.args.old_timestamp)
        /\ OldCancelFailed =>
               /\ Len(Subcalls) = 3
               /\ IsSubcall(Subcalls[3], "cancel_appointment",
                            last.args.new_timestamp)
               /\ ~last.res.success
               /\ last.res.message =
                      <<"Failed to cancel old appointment: ">>
                          \o Subcalls[2].ret.message

\* The old appointment is absent: the cancel fails with 'No matching
\* appointment found' and the new booking is cancelled again.
C5_CancelFailedAndCompensated ==
    /\ OldCancelFailed
    /\ Subcalls[2].ret.message = <<"No matching appointment found">>
    /\ Len(Subcalls) = 3
    /\ Subcalls[3].ret.success

\* C6: in reschedule_appointment, when booking the new time fails, the
\* result of the booking is returned as it is, cancel_appointment is never
\* called and the calendar is as it was before the call.
C6_FailedBookingReturned ==
    (/\ last.op = "reschedule_appointment"
     /\ ~BookingSucceeded) =>
        /\ Len(Subcalls) = 1
        /\ IsSubcall(Subcalls[1], "book_appointment", last.args.new_timestamp)
        /\ last.res = Subcalls[1].ret
        /\ \A i \in 1..Len(last.calls) : last.calls[i].call # "delete"
        /\ cal = last.before

\* The booking of the new time is refused although the customer holds the
\* old appointment, which stays.
C6_RefusedWithOldAppointment ==
    /\ last.op = "reschedule_appointment"
    /\ ~BookingSucceeded
    /\ ~InBusinessHours(last.args.new_timestamp)
    /\ \E i \in 1..Len(cal) :
           /\ cal[i].hasDesc
           /\ cal[i].phone = last.args.phone
           /\ LocalStart(cal[i]) = last.args.old_timestamp

\* The positions in c of the appointments of a phone number.
HeldBy(c, phone) ==
    {i \in 1..Len(c) : ~c[i].allDay /\ c[i].hasDesc /\ c[i].phone = phone}

HoldsOnlyOldAppointment ==
    /\ Cardinality(HeldBy(last.before, last.args.phone)) = 1
    /\ \A i \in HeldBy(last.before, last.args.phone) :
           LocalStart(last.before[i]) = last.args.old_timestamp

\* C7: for a customer who holds exactly one appointment, at old_timestamp, a
\* reschedule_appointment that returns success=true leaves exactly one
\* appointment of that phone number, at new_timestamp, and none at
\* old_timestamp.
C7_RescheduleMovesAppointment ==
    (/\ last.op = "reschedule_appointment"
     /\ last.res.success
     /\ HoldsOnlyOldAppointment) =>
        /\ Cardinality(HeldBy(cal, last.args.phone)) = 1
        /\ \A i \in HeldBy(cal, last.args.phone) :
               /\ LocalStart(cal[i]) = last.args.new_timestamp
               /\ LocalStart(cal[i]) # last.args.old_timestamp

\* C8: when reschedule_appointment returns success=false and every
\* compensating cancel it made succeeded, the calendar holds the events it
\* held before the call; when the compensating cancel fails, the events of
\* before and the new booking are all there, the result is success=false and
\* nothing more is attempted.
C8_FailureRestoresCalendar ==
    (/\ last.op = "reschedule_appointment"
     /\ ~last.res.success) =>
        /\ Len(Subcalls) <= 3
        /\ (Len(Subcalls) < 3 \/ Subcalls[3].ret.success) => cal = last.before
        /\ (Len(Subcalls) = 3 /\ ~Subcalls[3].ret.success) =>
               /\ cal = StoreInsert(last.before,
                            BookedEvent(last.args.name, last.args.new_timestamp,
                                        last.args.phone, DefaultDuration))

\* The delete of the old appointment fails and so does the compensating
\* cancel: the customer is left with the old and the new appointment.
C8_BothBookingsRemain ==
    /\ OldCancelFailed
    /\ Len(Subcalls) = 3
    /\ ~Subcalls[3].ret.success
    /\ ~last.res.success
    /\ HoldsOnlyOldAppointment
    /\ Cardinality(HeldBy(cal, last.args.phone)) = 2

(***************************************************************************)
(* Concurrent bookings (SpecConc)                                          *)
(***************************************************************************)
\* The listing invocation p read holds a timed event that shares an instant
\* with the interval p asked for.
ListingShowsOverlap(p) ==
    \E i \in 1..Len(procs[p].items) :
        /\ ~procs[p].items[i].allDay
        /\ ShareAnInstant(procs[p].timestamp,
                          procs[p].timestamp + procs[p].duration,
                          LocalStart(procs[p].items[i]),
                          LocalEnd(procs[p].items[i]))

\* C9: book_appointment decides on the listing it read and inserts without a
\* lock or a conditional write: an invocation in business hours succeeds
\* exactly when its own listing showed no overlapping event, whatever the
\* calendar holds by the time it inserts, so two invocations for the same
\* free slot can both succeed and leave two overlapping events.
C9_BookingTrustsItsListing ==
    \A p \in Procs :
        (procs[p].pc = "done" /\ InBusinessHours(procs[p].timestamp)) =>
            (procs[p].res.success <=> ~ListingShowsOverlap(p))

\* Both invocations asked for the same slot, both returned success=true and
\* the calendar holds two overlapping appointments.
C9_DoubleBooking ==
    /\ \A p \in Procs : procs[p].pc = "done" /\ procs[p].res.success
    /\ procs["a"].timestamp = procs["b"].timestamp
    /\ last = NoLast
    /\ \E i, j \in 1..Len(cal) :
           /\ i < j
           /\ cal[i].hasDesc /\ cal[j].hasDesc
           /\ ShareAnInstant(LocalStart(cal[i]), LocalEnd(cal[i]),
                             LocalStart(cal[j]), LocalEnd(cal[j]))

(***************************************************************************)
(* Requests for a day in the past (Spec)                                   *)
(***************************************************************************)
\* C10: for a day before today, get_available_times generates no slot and
\* reports 'Requested date is before today...' without availability, and
\* get_availability asked for such a date reports that failure too, not a
\* result with slots and not an empty success.
C10_PastDateReported ==
    /\ (last.op = "get_available_times"
            /\ DayOf(last.args.timestamp) < Today) =>
           /\ last.res.generated = <<>>
           /\ last.res.message = DateBeforeToday
           /\ "availability_found" \notin last.res.keys
    /\ (last.op = "get_availability"
            /\ last.args.fault = 0
            /\ last.args.date # NoDate
            /\ last.args.date < Today) =>
           /\ ~last.res.success
           /\ last.res.message = <<DateBeforeToday>>

(***************************************************************************)
(* Availability of the current day (SpecAvail)                             *)
(***************************************************************************)
\* No timed event of the listing shares an instant with the candidate that
\* starts at minute m of the queried day.
ConflictFree(m) ==
    \A i \in TimedItems :
        ~ShareAnInstant(m, m + last.args.duration,
                        MinuteOfDay(LocalStart(last.args.items[i])),
                        MinuteOfDay(LocalStart(last.args.items[i]))
                          + (LocalEnd(last.args.items[i])
                               - LocalStart(last.args.items[i])))

HM(hh, mm) == <<hh \div 10, hh % 10, mm \div 10, mm % 10>>
Slot(h1, m1, h2, m2) == [start |-> HM(h1, m1), end |-> HM(h2, m2)]

SlotPool ==
    {Slot(9, 0, 9, 30), Slot(9, 30, 10, 0), Slot(10, 0, 10, 30),
     Slot(10, 30, 11, 0), Slot(11, 30, 12, 0), Slot(12, 0, 12, 45),
     Slot(9, 0, 9, 45)}

SlotLists ==
    {l \in UNION {[1..n -> SlotPool] : n \in 0..MaxSlots} :
        \A i, j \in 1..Len(l) : i # j => l[i] # l[j]}

DoCombineEvents ==
    \E slots \in SlotLists :
        Serve("_combine_events", [slots |-> slots],
              Outcome(cal, CombineEvents(slots, TRUE), <<>>))

DoFormatTime ==
    \E hh \in 0..23, mm \in 0..59 :
        Serve("format_time", [time_str |-> HM(hh, mm)],
              Outcome(cal, [token |-> FormatTime(HM(hh, mm))], <<>>))

NextCombine ==
    \/ DoCombineEvents
    \/ DoFormatTime
    \/ Return

SpecCombine == Init /\ [][NextCombine]_vars

(***************************************************************************)
(* Properties of _combine_events and format_time (SpecCombine)             *)
(***************************************************************************)
\* The slots given to _combine_events in the order of their starts, slots of
\* equal start in the order given.
StartRank(k) ==
    1 + Cardinality({j \in 1..Len(last.args.slots) :
            \/ MinutesOfHM(last.args.slots[j].start)
                  < MinutesOfHM(last.args.slots[k].start)
            \/ /\ last.args.slots[j].start = last.args.slots[k].start
               /\ j < k})

StartOrder ==
    [i \in 1..Len(last.args.slots) |->
        CHOOSE k \in 1..Len(last.args.slots) : StartRank(k) = i]

ByStart(i) == last.args.slots[StartOrder[i]]

\* A run begins at slot i of the start order.
RunBegins(i) == i = 1 \/ ByStart(i).start # ByStart(i - 1).end

RunFirst(i) == CHOOSE j \in 1..i :
                   RunBegins(j) /\ \A k \in (j + 1)..i : ~RunBegins(k)

RunLast(i) == CHOOSE j \in i..Len(last.args.slots) :
                  /\ \A k \in (i + 1)..j : ~RunBegins(k)
                  /\ (j = Len(last.args.slots) \/ RunBegins(j + 1))

\* The items slot i of the start order contributes to the rendering.
ItemsOf(i) ==
    IF RunLast(i) - RunFirst(i) + 1 >= 3
    THEN IF i = RunFirst(i)
         THEN << <<"from ">> \o FormatTime(ByStart(i).start) \o <<" to ">>
                    \o FormatTime(ByStart(RunLast(i)).start) >>
         ELSE <<>>
    ELSE <<FormatTime(ByStart(i).start)>>

RECURSIVE ItemsUpTo(_)
ItemsUpTo(n) == IF n = 0 THEN <<>> ELSE ItemsUpTo(n - 1) \o ItemsOf(n)

RECURSIVE JoinedUpTo(_, _)
JoinedUpTo(items, n) ==
    IF n = 1 THEN items[1]
    ELSE JoinedUpTo(items, n - 1) \o <<", ">> \o items[n]

DigitValue(c) == CHOOSE d \in 0..9 : DigitChars[d + 1] = c

\* The number a text of one or two digits denotes; -1 for any other text.
Number(text) ==
    IF Len(text) \in 1..2
          /\ \A i \in 1..Len(text) : \E d \in 0..9 : DigitChars[d + 1] = text[i]
    THEN IF Len(text) = 1 THEN DigitValue(text[1])
         ELSE DigitValue(text[1]) * 10 + DigitValue(text[2])
    ELSE 0 - 1

TokenHour == (last.args.time_str[1] * 10 + last.args.time_str[2])
TokenMinute == (last.args.time_str[3] * 10 + last.args.time_str[4])

\* The token without its AM/PM suffix.
TokenClock == SubSeq(last.res.token, 1, Len(last.res.token) - 2)

\* C14: format_time gives the hour of the 12-hour clock without a leading
\* zero (12 at noon and midnight, never 0), then ':' and the two digits of
\* the minutes only when they are not zero, then AM or PM in upper case with
\* no space: '09:00' -> '9AM', '14:30' -> '2:30PM', '12:00' -> '12PM'.
C14_TwelveHourToken ==
    last.op = "format_time" =>
        /\ Len(last.res.token) >= 3
        /\ last.res.token[1] # "0"
        /\ SubSeq(last.res.token, Len(last.res.token) - 1, Len(last.res.token))
              = (IF TokenHour < 12 THEN <<"A", "M">> ELSE <<"P", "M">>)
        /\ TokenMinute = 0 =>
               Number(TokenClock)
                 = (IF TokenHour % 12 = 0 THEN 12 ELSE TokenHour % 12)
        /\ TokenMinute # 0 =>
               /\ Len(TokenClock) >= 4
               /\ TokenClock[Len(TokenClock) - 2] = ":"
               /\ Number(SubSeq(TokenClock, Len(TokenClock) - 1, Len(TokenClock)))
                     = TokenMinute
               /\ Len(SubSeq(TokenClock, Len(TokenClock) - 1, Len(TokenClock))) = 2
               /\ Number(SubSeq(TokenClock, 1, Len(TokenClock) - 3))
                     = (IF TokenHour % 12 = 0 THEN 12 ELSE TokenHour % 12)
        /\ last.args.time_str = HM(9, 0) => last.res.token = <<"9", "A", "M">>
        /\ last.args.time_str = HM(12, 0) => last.res.token = <<"1", "2", "P", "M">>
        /\ last.args.time_str = HM(0, 5)
              => last.res.token = <<"1", "2", ":", "0", "5", "A", "M">>

\* '14:30' has been formatted as '2:30PM'.
C14_HalfPastTwo ==
    /\ last.op = "format_time"
    /\ last.args.time_str = HM(14, 30)
    /\ last.res.token = <<"2", ":", "3", "0", "P", "M">>

(***************************************************************************)
(* The answer of get_available_times (SpecAvail, Spec)                     *)
(***************************************************************************)
NineToHalfPastFour ==
    <<"from ", "9", "A", "M", " to ", "4", ":", "3", "0", "P", "M">>

\* C13: for a future day without events and a duration of 30 minutes the
\* availability computation yields the 16 slots 09:00, 09:30, ..., 16:30 and
\* renders them as 'from 9AM to 4:30PM', in get_available_times and in the
\* answer of get_availability for that day.
C13_FreeDayIsOneRange ==
    /\ (/\ last.op = "get_available_times"
        /\ DayOf(last.args.timestamp) > Today
        /\ last.args.duration = 30
        /\ last.args.items = <<>>) =>
           /\ Len(last.res.generated) = 16
           /\ \A m \in CandidateStarts : Offered(m)
           /\ last.res.times = NineToHalfPastFour
    /\ (/\ last.op = "get_availability"
        /\ last.args.fault = 0
        /\ last.args.date # NoDate
        /\ last.args.date > Today
        /\ last.args.duration = 30
        /\ EventsList(last.before, last.args.date * MinutesPerDay, FALSE) = <<>>) =>
           /\ last.res.success
           /\ last.res.slots = NineToHalfPastFour

\* The text of strftime('%A, %B %d') for the two days that are asked about.
DayText(day) ==
    IF day = 1 THEN <<"Wednesday", ", ", "March", " ", "2", "0">>
    ELSE <<"Thursday", ", ", "March", " ", "2", "1">>

\* C15: for a day that is not past, get_available_times of the base platform
\* answers 'Available <Weekday, Month Day>: <rendered slots>' with
\* availability_found = true exactly when at least one slot is free, and
\* otherwise 'No available times found on <Weekday, Month Day>' with
\* availability_found = false; _combine_events gives the literal
\* 'No available times found' for the empty slot list.
C15_AnswerNamesTheDay ==
    (/\ last.op = "get_available_times"
     /\ DayOf(last.args.timestamp) >= Today) =>
        /\ last.res.availability_found
              <=> \E m \in CandidateStarts : EligibleCandidate(m) /\ ConflictFree(m)
        /\ last.res.availability_found =>
               /\ last.res.times # <<>>
               /\ last.res.message =
                      <<"Available ">> \o DayText(DayOf(last.args.timestamp))
                          \o <<": ">> \o last.res.times
        /\ ~last.res.availability_found =>
               /\ last.res.combined_slots = "No available times found"
               /\ last.res.message =
                      <<"No available times found on ">>
                          \o DayText(DayOf(last.args.timestamp))

\* A day blocked from 08:00 to 20:30 has no free slot.
C15_NothingFreeTomorrow ==
    /\ last.op = "get_available_times"
    /\ DayOf(last.args.timestamp) = Tomorrow
    /\ TimedItems # {}
    /\ ~last.res.availability_found
    /\ last.res.message =
           <<"No available times found on ", "Thursday", ", ", "March", " ",
             "2", "1">>

(***************************************************************************)
(* book_appointment on a day without a free slot (Spec)                    *)
(***************************************************************************)
\* The calendar before the call holds a timed event that covers the whole
\* of the business hours of the day of timestamp.
DayFullyBooked(timestamp) ==
    \E i \in 1..Len(last.before) :
        /\ ~last.before[i].allDay
        /\ LocalStart(last.before[i]) <= AtHour(timestamp, DEFAULT_START_HOUR)
        /\ LocalEnd(last.before[i]) >= AtHour(timestamp, DEFAULT_END_HOUR)

\* The calendar reads an operation made for the day after the day of
\* timestamp.
NextDayProbes(timestamp) ==
    SelectSeq(last.calls,
              LAMBDA x : x.call = "list" /\ DayOf(x.ts) = DayOf(timestamp) + 1)

NextDayPrefix == "Requested date unavailable, but there is availability on: "

\* C16: when book_appointment meets a conflict and the requested day has no
\* free slot, it reads the calendar of exactly one following day and returns
\* success=false with 'Time slot is already booked' and an alternate text
\* that starts with 'Requested date unavailable, but there is availability
\* on: ' followed by the availability message of that day.
C16_FullDayProbesNextDay ==
    (/\ last.op = "book_appointment"
     /\ last.args.fault = 0
     /\ InBusinessHours(last.args.timestamp)
     /\ DayFullyBooked(last.args.timestamp)) =>
        /\ ~last.res.success
        /\ last.res.message = <<"Time slot is already booked">>
        /\ Len(NextDayProbes(last.args.timestamp)) = 1
        /\ "available_slots" \in last.res.keys
        /\ last.res.slots # NoAvailableTimesFound
        /\ Len(last.res.slots) >= 1
        /\ last.res.slots[1] = NextDayPrefix

\* A conflict on a fully booked day, answered from the one listing of that day.
C16_FullDayAnsweredWithoutProbe ==
    /\ last.op = "book_appointment"
    /\ last.args.fault = 0
    /\ InBusinessHours(last.args.timestamp)
    /\ DayFullyBooked(last.args.timestamp)
    /\ ~last.res.success
    /\ last.res.message = <<"Time slot is already booked">>
    /\ last.res.slots = NoAvailableTimesFound
    /\ last.res.date = DayOf(last.args.timestamp)
    /\ Len(ApiCalls(last.calls)) = 1
    /\ NextDayProbes(last.args.timestamp) = <<>>

(***************************************************************************)
(* get_availability without a date (Spec)                                  *)
(***************************************************************************)
\* C17: get_availability called without a date reports the availability of
\* today: it reads the calendar of today and answers with today's date and
\* only the slots that start strictly after the current time.
C17_NoDateReportsToday ==
    (/\ last.op = "get_availability"
     /\ last.args.date = NoDate
     /\ last.args.fault = 0) =>
        /\ last.res.success
        /\ last.res.date = DayOf(now)
        /\ Len(ApiCalls(last.calls)) >= 1
        /\ ApiCalls(last.calls)[1].ts = AtHour(now, 0)
        /\ last.res.slots =
               BaseGetAvailableTimes(AtHour(now, DEFAULT_START_HOUR),
                                     EventsList(last.before, now, FALSE),
                                     last.args.duration, now).combined_slots

\* get_availability without a date on an empty calendar: it reads tomorrow
\* and fails in the rendering of the slots it found.
C17_NoDateReadsTomorrow ==
    /\ last.op = "get_availability"
    /\ last.args.date = NoDate
    /\ last.args.fault = 0
    /\ last.before = <<>>
    /\ ~last.res.success
    /\ last.res.message = <<"Error getting available slots: ", TypeError>>
    /\ Len(ApiCalls(last.calls)) = 1
    /\ DayOf(ApiCalls(last.calls)[1].ts) = DayOf(now) + 1

(***************************************************************************)
(* What cancel_appointment deletes (Spec)                                  *)
(***************************************************************************)
\* The events the operation removed from the calendar.
Removed ==
    {e \in {last.before[i] : i \in 1..Len(last.before)} :
        \A j \in 1..Len(cal) : cal[j] # e}

Deletes(calls) == SelectSeq(calls, LAMBDA x : x.call = "delete")

\* C18: cancel_appointment deletes only an event whose start equals the
\* given timestamp and that was booked with exactly the given phone number;
\* it never deletes an event of another phone number (not even one that
\* begins with the given number) or of another time.
C18_CancelDeletesOnlyExactMatch ==
    (last.op = "cancel_appointment") =>
        /\ \A e \in Removed :
              /\ ~e.allDay
              /\ LocalStart(e) = last.args.timestamp
              /\ e.hasDesc
              /\ e.phone = last.args.phone
        /\ \A k \in 1..Len(Deletes(last.calls)) :
              /\ Deletes(last.calls)[k].ts = last.args.timestamp
              /\ Deletes(last.calls)[k].phone = last.args.phone

\* A cancellation for one phone number removed the appointment of a longer
\* number that begins with it.
C18_OtherCustomerCancelled ==
    /\ last.op = "cancel_appointment"
    /\ last.res.success
    /\ \E e \in Removed :
          /\ LocalStart(e) = last.args.timestamp
          /\ e.phone # last.args.phone
          /\ PhoneInDescription(last.args.phone, e)

(***************************************************************************)
(* Calendar failures in book_appointment (Spec)                            *)
(***************************************************************************)
CallsOf(what) == SelectSeq(last.calls, LAMBDA x : x.call = what)

SomeCallRaised == \E k \in 1..Len(last.calls) : ~last.calls[k].ret.success

\* C19: book_appointment issues the list call and the insert call at most
\* once each; when the list call fails no insert is attempted; and when
\* either call fails the operation returns success=false with the message
\* 'Error booking appointment: ' followed by the error text of the calendar,
\* leaving the calendar as it was.
C19_FailureSurfacedOnce ==
    (last.op = "book_appointment") =>
        /\ Len(CallsOf("list")) <= 1
        /\ Len(CallsOf("insert")) <= 1
        /\ {"success", "message"} \subseteq last.res.keys
        /\ (CallsOf("list") # <<>> /\ ~CallsOf("list")[1].ret.success) =>
               CallsOf("insert") = <<>>
        /\ (last.args.fault = 1 /\ InBusinessHours(last.args.timestamp)) =>
               /\ Len(last.calls) = 1
               /\ last.calls[1].call = "list"
               /\ ~last.calls[1].ret.success
        /\ (/\ last.args.fault = 2
            /\ InBusinessHours(last.args.timestamp)
            /\ ~OverlapsExisting(last.args.timestamp, last.args.duration)) =>
               /\ Len(last.calls) = 2
               /\ last.calls[2].call = "insert"
               /\ ~last.calls[2].ret.success
        /\ SomeCallRaised =>
               /\ ~last.res.success
               /\ last.res.message = <<"Error booking appointment: ", CalendarError>>
               /\ cal = last.before

\* The listing went through and the insert raised.
C19_InsertRaised ==
    /\ last.op = "book_appointment"
    /\ Len(last.calls) = 2
    /\ last.calls[1].call = "list" /\ last.calls[1].ret.success
    /\ last.calls[2].call = "insert" /\ ~last.calls[2].ret.success
    /\ ~last.res.success
    /\ last.res.message = <<"Error booking appointment: ", CalendarError>>
    /\ cal = last.before

(***************************************************************************)
(* handler.lambda_handler, the entry point (SpecHandler).  A Python value  *)
(* is a record of its type and its content; the content of a str is its    *)
(* text, that of a dict its keys and value literals in turn, that of a     *)
(* list its element literals.                                              *)
(***************************************************************************)
PyNone == [type |-> "NoneType", val |-> <<"None">>]
PyStr(text) == [type |-> "str", val |-> text]
PyDict(pairs) == [type |-> "dict", val |-> pairs]

\* bool(v) for the values above.
Truthy(v) == v.type # "NoneType" /\ v.val # <<>>

\* json.dumps of a str (of text that needs no escaping).
JsonDumpsStr(text) == <<"\"">> \o text \o <<"\"">>

RECURSIVE JsonPairs(_)
JsonPairs(pairs) ==
    IF pairs = <<>> THEN <<>>
    ELSE <<"\"", pairs[1], "\"", ": ", pairs[2]>>
         \o (IF Len(pairs) > 2 THEN <<", ">> ELSE <<>>)
         \o JsonPairs(SubSeq(pairs, 3, Len(pairs)))

RECURSIVE JsonElems(_)
JsonElems(elems) ==
    IF elems = <<>> THEN <<>>
    ELSE <<elems[1]>>
         \o (IF Len(elems) > 1 THEN <<", ">> ELSE <<>>)
         \o JsonElems(Tail(elems))

\* json.dumps of a dict or a list.
JsonDumps(v) ==
    IF v.type = "dict" THEN <<"{">> \o JsonPairs(v.val) \o <<"}">>
    ELSE <<"[">> \o JsonElems(v.val) \o <<"]">>

\* The keys of handlers.HANDLERS.
HANDLERS ==
    {"book_appointment", "get_availability", "get_appointments",
     "cancel_appointment", "reschedule_appointment"}

\* HANDLERS.get(operation) finds a handler.
Registered(operation) ==
    operation.type = "str" /\ \E h \in HANDLERS : operation.val = <<h>>

\* The keys of PlatformFactory._platforms.
SupportedPlatforms == {"google"}

Response(statusCode, body) ==
    [statusCode |-> statusCode, body |-> body, escaped |-> ""]

\* An exception that leaves lambda_handler.
Escapes(exc) == [statusCode |-> 0, body |-> PyNone, escaped |-> exc]

\* A variant of the except clauses without the clause for Exception.
ExceptClausesValueErrorOnly(exc, msg) ==
    IF exc = "ValueError"
    THEN Response(400, PyStr(JsonDumpsStr(msg)))
    ELSE Escapes(exc)

\* The except clauses of lambda_handler; the classes of exception the
\* handlers raise all derive from Exception.
ExceptClauses(exc, msg) ==
    IF exc = "ValueError"
    THEN Response(400, PyStr(JsonDumpsStr(msg)))
    ELSE IF exc \in {"ValueError", "KeyError", "HttpError", "AttributeError"}
    THEN Response(500, PyStr(JsonDumpsStr(<<"Error: ">> \o msg)))
    ELSE Escapes(exc)

\* The serialisation of the body of the result of a handler.
SerializeBody(body) ==
    IF body.type \in {"dict", "list"} THEN PyStr(JsonDumps(body))
    ELSE IF body.type # "str" THEN PyStr(JsonDumpsStr(body.val))
    ELSE body

HandlerCall(operation, platform) ==
    [call |-> operation.val[1], platform |-> platform.val]

\* lambda_handler from the call of the handler on; behaviour is what the
\* handler does with the event.
AfterHandler(operation, platform, behaviour) ==
    IF behaviour.kind = "raise"
    THEN Outcome(cal, ExceptClauses(behaviour.exc, behaviour.msg),
                 <<HandlerCall(operation, platform)>>)
    ELSE IF behaviour.kind = "return_none"
    THEN Outcome(cal, ExceptClauses("AttributeError",
                     <<"'NoneType' object has no attribute 'get'">>),
                 <<HandlerCall(operation, platform)>>)
    ELSE Outcome(cal, Response(behaviour.statusCode, SerializeBody(behaviour.body)),
                 <<HandlerCall(operation, platform)>>)

\* A variant that asks for the platform before the operation.
LambdaHandlerPlatformFirst(event, behaviour) ==
    IF ~Truthy(event.platform)
    THEN Outcome(cal, Response(400, PyStr(JsonDumpsStr(<<"Platform is required">>))), <<>>)
    ELSE IF ~Truthy(event.operation)
    THEN Outcome(cal, Response(400, PyStr(JsonDumpsStr(<<"Operation is required">>))), <<>>)
    ELSE IF ~Registered(event.operation)
    THEN Outcome(cal, Response(400, PyStr(JsonDumpsStr(
                     <<"Unknown operation: ">> \o event.operation.val))), <<>>)
    ELSE AfterHandler(event.operation, event.platform, behaviour)

\* handler.lambda_handler(event, context); an absent key of the event reads
\* as None.
LambdaHandler(event, behaviour) ==
    IF ~Truthy(event.operation)
    THEN Outcome(cal, Response(400, PyStr(JsonDumpsStr(<<"Operation is required">>))), <<>>)
    ELSE IF ~Truthy(event.platform)
    THEN Outcome(cal, Response(400, PyStr(JsonDumpsStr(<<"Platform is required">>))), <<>>)
    ELSE IF ~Registered(event.operation)
    THEN Outcome(cal, Response(400, PyStr(JsonDumpsStr(
                     <<"Unknown operation: ">> \o event.operation.val))), <<>>)
    ELSE AfterHandler(event.operation, event.platform, behaviour)

\* The requests and the handler behaviours of the model.
Operations ==
    {PyNone, PyStr(<<>>), PyStr(<<"invalid_operation">>), PyStr(<<"get_next_open">>)}
    \cup {PyStr(<<h>>) : h \in HANDLERS}

PlatformNames == {PyNone, PyStr(<<>>), PyStr(<<"google">>), PyStr(<<"square">>)}

Bodies ==
    {PyDict(<<"success", "true">>),
     PyDict(<<"success", "false", "message", "\"Time slot is already booked\"">>),
     [type |-> "list", val |-> <<>>],
     PyStr(<<"Phone number is required">>),
     PyStr(<<"{\"success\": true}">>),
     PyNone,
     [type |-> "int", val |-> <<"7">>]}

HandlerRaises(exc, msg) ==
    [kind |-> "raise", exc |-> exc, msg |-> msg, statusCode |-> 0, body |-> PyNone]

\* What a handler may do with the event: return a response, return nothing,
\* or raise; PlatformFactory.get_platform raises ValueError for a platform
\* it does not know.
HandlerBehaviours(platform) ==
    {[kind |-> "return", exc |-> "", msg |-> <<>>, statusCode |-> sc, body |-> b] :
        sc \in {200, 400}, b \in Bodies}
    \cup {[kind |-> "return_none", exc |-> "", msg |-> <<>>,
           statusCode |-> 0, body |-> PyNone]}
    \cup (IF platform.type = "str" /\ \E n \in SupportedPlatforms : platform.val = <<n>>
          THEN {HandlerRaises("ValueError", <<"Invalid input">>),
                HandlerRaises("KeyError", <<"'dateTime'">>),
                HandlerRaises("HttpError", <<CalendarError>>)}
          ELSE {HandlerRaises("ValueError",
                    <<"Unsupported platform: ">> \o platform.val
                    \o <<". ", "Supported platforms are: ", "google">>)})

\* A request whose operation is not handled: the handlers play no part.
DoInvalidRequest ==
    \E operation \in Operations, platform \in PlatformNames :
        /\ ~(Truthy(operation) /\ Truthy(platform) /\ Registered(operation))
        /\ Serve("lambda_handler",
                 [operation |-> operation, platform |-> platform,
                  behaviour |-> HandlerRaises("", <<>>)],
                 LambdaHandler([operation |-> operation, platform |-> platform],
                               HandlerRaises("", <<>>)))

\* A request that reaches its handler.
DoLambdaHandler ==
    \E operation \in Operations, platform \in PlatformNames :
        \E behaviour \in HandlerBehaviours(platform) :
            /\ Truthy(operation) /\ Truthy(platform) /\ Registered(operation)
            /\ Serve("lambda_handler",
                     [operation |-> operation, platform |-> platform,
                      behaviour |-> behaviour],
                     LambdaHandler([operation |-> operation, platform |-> platform],
                                   behaviour))

NextHandler ==
    \/ DoInvalidRequest
    \/ DoLambdaHandler
    \/ Return

SpecHandler == Init /\ [][NextHandler]_vars

\* The text of a message as the body of a response carries it.
BodyOf(text) == PyStr(JsonDumpsStr(text))

\* C20: lambda_handler never raises and never invokes an operation handler
\* for an invalid request: it answers 400 'Operation is required' when the
\* operation is missing, 400 'Platform is required' when the operation is
\* present and the platform is missing, 400 'Unknown operation: <op>' for an
\* operation that is not registered, 400 when the invoked handler raises
\* ValueError, and 500 with a body 'Error: ...' when it raises any other
\* exception.
C20_HandlerAlwaysAnswers ==
    (last.op = "lambda_handler") =>
        /\ last.res.escaped = ""
        /\ last.res.body.type = "str"
        /\ ~Truthy(last.args.operation) =>
               /\ last.res.statusCode = 400
               /\ last.res.body = BodyOf(<<"Operation is required">>)
               /\ last.calls = <<>>
        /\ (Truthy(last.args.operation) /\ ~Truthy(last.args.platform)) =>
               /\ last.res.statusCode = 400
               /\ last.res.body = BodyOf(<<"Platform is required">>)
               /\ last.calls = <<>>
        /\ (/\ Truthy(last.args.operation)
            /\ Truthy(last.args.platform)
            /\ \A h \in HANDLERS : last.args.operation.val # <<h>>) =>
               /\ last.res.statusCode = 400
               /\ last.res.body =
                      BodyOf(<<"Unknown operation: ">> \o last.args.operation.val)
               /\ last.calls = <<>>
        /\ last.calls # <<>> =>
               /\ Len(last.calls) = 1
               /\ last.calls[1].call \in HANDLERS
               /\ last.calls[1].call = last.args.operation.val[1]
               /\ last.calls[1].platform = last.args.platform.val
               /\ (last.args.behaviour.kind = "raise"
                   /\ last.args.behaviour.exc = "ValueError") =>
                      /\ last.res.statusCode = 400
                      /\ last.res.body = BodyOf(last.args.behaviour.msg)
               /\ (last.args.behaviour.kind = "raise"
                   /\ last.args.behaviour.exc # "ValueError") =>
                      /\ last.res.statusCode = 500
                      /\ last.res.body =
                             BodyOf(<<"Error: ">> \o last.args.behaviour.msg)

\* A handler was invoked and raised something other than ValueError.
C20_HandlerRaisedOther ==
    /\ last.op = "lambda_handler"
    /\ Len(last.calls) = 1
    /\ last.args.behaviour.kind = "raise"
    /\ last.args.behaviour.exc = "KeyError"
    /\ last.res.statusCode = 500
    /\ last.res.body = PyStr(<<"\"", "Error: ", "'dateTime'", "\"">>)

(***************************************************************************)
(* The operation handlers of handlers/appointment_handlers.py and the      *)
(* parsing of timestamps (SpecRequests).  The fields of an event are       *)
(* Python values; a timestamp and a phone number are texts, sequences of   *)
(* characters.                                                             *)
(***************************************************************************)
TwoDigits(text, i) == DigitValue(text[i]) * 10 + DigitValue(text[i + 1])

\* strftime('%Y-%m-%dT%H:%M:%S') of a time of the model (a day of March 2024).
TimestampText(t) ==
    <<"2", "0", "2", "4", "-", "0", "3", "-",
      DigitChar((DayOf(t) + 19) \div 10), DigitChar((DayOf(t) + 19) % 10), "T",
      DigitChar(HourOf(t) \div 10), DigitChar(HourOf(t) % 10), ":",
      DigitChar((MinuteOfDay(t) % 60) \div 10), DigitChar((MinuteOfDay(t) % 60) % 10),
      ":", "0", "0">>

\* The text has the shape of '%Y-%m-%dT%H:%M:%S' in its zero-padded form and
\* its fields are in range.
MatchesFormat(text) ==
    /\ Len(text) = 19
    /\ text[5] = "-" /\ text[8] = "-" /\ text[11] = "T"
    /\ text[14] = ":" /\ text[17] = ":"
    /\ \A k \in {1, 2, 3, 4, 6, 7, 9, 10, 12, 13, 15, 16, 18, 19} :
          \E d \in 0..9 : DigitChars[d + 1] = text[k]
    /\ TwoDigits(text, 6) \in 1..12
    /\ TwoDigits(text, 9) \in 1..31
    /\ TwoDigits(text, 12) \in 0..23
    /\ TwoDigits(text, 15) \in 0..59
    /\ TwoDigits(text, 18) \in 0..61

\* datetime.strptime(text, '%Y-%m-%dT%H:%M:%S') as a time of the model, for
\* the months March and April of 2024; Unparseable when it raises ValueError.
Strptime(text) ==
    IF MatchesFormat(text)
    THEN At((TwoDigits(text, 6) - 3) * 31 + TwoDigits(text, 9) - 19,
            TwoDigits(text, 12), TwoDigits(text, 15))
    ELSE Unparseable

\* The digits of a phone number given as text.
PhoneDigits(text) == [k \in 1..Len(text) |-> DigitValue(text[k])]

\* What a handler returns: a status code with either a message or the dict
\* of the platform as body; raised names an exception it lets through.
NoResult == Result({}, FALSE, <<>>, Absent, NoDate)

HandlerResponse(statusCode, text, result) ==
    [statusCode |-> statusCode, text |-> text, result |-> result, raised |-> ""]

HandlerRaised(exc) ==
    [statusCode |-> 0, text |-> <<>>, result |-> NoResult, raised |-> exc]

\* PlatformFactory.get_platform(platform_name) finds a platform.
PlatformKnown(platform_name) ==
    /\ platform_name.type = "str"
    /\ \E n \in SupportedPlatforms : platform_name.val = <<n>>

GetPlatform(platform_name) ==
    Invocation("get_platform", NoDate, <<>>,
               IF PlatformKnown(platform_name) THEN Success(<<>>)
               ELSE Failure(<<"Unsupported platform: ">> \o platform_name.val))

\* event.get('duration', 30)
EventDuration(event) ==
    IF event.duration = NoDate THEN DefaultDuration ELSE event.duration

\* A variant that obtains the platform before it looks at the fields.
HandleBookAppointmentPlatformFirst(c, event, platform_name, f, rev) ==
    IF ~PlatformKnown(platform_name)
    THEN Outcome(c, HandlerRaised("ValueError"), <<GetPlatform(platform_name)>>)
    ELSE IF ~(Truthy(event.name) /\ Truthy(event.timestamp) /\ Truthy(event.phone_number))
    THEN Outcome(c, HandlerResponse(400,
                     <<"Name, timestamp, and phone number are required">>, NoResult),
                 <<GetPlatform(platform_name)>>)
    ELSE Outcome(
             BookAppointment(c, event.name.val[1], Strptime(event.timestamp.val),
                 PhoneDigits(event.phone_number.val), EventDuration(event),
                 f, 0, rev).cal,
             HandlerResponse(200, <<>>,
                 BookAppointment(c, event.name.val[1], Strptime(event.timestamp.val),
                     PhoneDigits(event.phone_number.val), EventDuration(event),
                     f, 0, rev).res),
             <<GetPlatform(platform_name)>>
             \o BookAppointment(c, event.name.val[1], Strptime(event.timestamp.val),
                    PhoneDigits(event.phone_number.val), EventDuration(event),
                    f, 0, rev).calls)

\* handle_book_appointment(event, platform_name)
HandleBookAppointment(c, event, platform_name, f, rev) ==
    IF ~(Truthy(event.name) /\ Truthy(event.timestamp) /\ Truthy(event.phone_number))
    THEN Outcome(c, HandlerResponse(400,
                     <<"Name, timestamp, and phone number are required">>, NoResult),
                 <<>>)
    ELSE IF ~PlatformKnown(platform_name)
    THEN Outcome(c, HandlerRaised("ValueError"), <<GetPlatform(platform_name)>>)
    ELSE Outcome(
             BookAppointment(c, event.name.val[1], Strptime(event.timestamp.val),
                 PhoneDigits(event.phone_number.val), EventDuration(event),
                 f, 0, rev).cal,
             HandlerResponse(200, <<>>,
                 BookAppointment(c, event.name.val[1], Strptime(event.timestamp.val),
                     PhoneDigits(event.phone_number.val), EventDuration(event),
                     f, 0, rev).res),
             <<GetPlatform(platform_name)>>
             \o BookAppointment(c, event.name.val[1], Strptime(event.timestamp.val),
                    PhoneDigits(event.phone_number.val), EventDuration(event),
                    f, 0, rev).calls)

\* handle_reschedule_appointment(event, platform_name)
HandleRescheduleAppointment(c, event, platform_name, f, rev) ==
    IF ~(/\ Truthy(event.name) /\ Truthy(event.phone_number)
         /\ Truthy(event.old_timestamp) /\ Truthy(event.new_timestamp))
    THEN Outcome(c, HandlerResponse(400,
                     <<"Name, phone number, old timestamp, and new timestamp are required">>,
                     NoResult),
                 <<>>)
    ELSE IF ~PlatformKnown(platform_name)
    THEN Outcome(c, HandlerRaised("ValueError"), <<GetPlatform(platform_name)>>)
    ELSE Outcome(
             RescheduleAppointment(c, event.name.val[1],
                 PhoneDigits(event.phone_number.val),
                 Strptime(event.old_timestamp.val),
                 Strptime(event.new_timestamp.val), f, rev).cal,
             HandlerResponse(200, <<>>,
                 RescheduleAppointment(c, event.name.val[1],
                     PhoneDigits(event.phone_number.val),
                     Strptime(event.old_timestamp.val),
                     Strptime(event.new_timestamp.val), f, rev).res),
             <<GetPlatform(platform_name)>>
             \o RescheduleAppointment(c, event.name.val[1],
                    PhoneDigits(event.phone_number.val),
                    Strptime(event.old_timestamp.val),
                    Strptime(event.new_timestamp.val), f, rev).calls)

\* The requests of the model.
GoodTimestampTexts ==
    {TimestampText(At(Tomorrow, 9, 0)), TimestampText(At(Tomorrow, 9, 30))}

BadTimestampTexts ==
    {<<"t", "o", "m", "o", "r", "r", "o", "w">>,
     <<"2", "0", "2", "4", "-", "0", "3", "-", "2", "1", "T", "0", "9", ":", "0", "0">>,
     <<"2", "0", "2", "4", "-", "0", "3", "-", "2", "1", " ", "0", "9", ":", "0", "0",
       ":", "0", "0">>,
     <<"2", "0", "2", "4", "-", "0", "3", "-", "2", "1", "T", "2", "5", ":", "0", "0",
       ":", "0", "0">>}

TimestampFields ==
    {PyNone, PyStr(<<>>)}
    \cup {PyStr(t) : t \in GoodTimestampTexts \cup BadTimestampTexts}


DoHandleBookAppointment ==
    \E name \in {PyNone, PyStr(<<"Ann">>)}, timestamp \in TimestampFields,
       phone \in {PyNone, PyStr(<<>>), PyStr(<<"5">>)}, duration \in {NoDate, 60},
       platform \in {PyStr(<<"google">>), PyStr(<<"square">>)}, f \in {0, 1} :
        /\ Len(cal) < MaxEvents
        /\ Serve("handle_book_appointment",
                 [name |-> name, timestamp |-> timestamp, phone_number |-> phone,
                  duration |-> duration, platform |-> platform, fault |-> f],
                 HandleBookAppointment(cal,
                     [name |-> name, timestamp |-> timestamp,
                      phone_number |-> phone, duration |-> duration],
                     platform, f, FALSE))

DoHandleRescheduleAppointment ==
    \E name \in {PyNone, PyStr(<<"Ann">>)}, old \in TimestampFields, new \in TimestampFields,
       phone \in {PyNone, PyStr(<<>>), PyStr(<<"5">>)}, platform \in {PyStr(<<"google">>), PyStr(<<"square">>)}, f \in {0, 1} :
        /\ Len(cal) < MaxEvents
        /\ Serve("handle_reschedule_appointment",
                 [name |-> name, old_timestamp |-> old, new_timestamp |-> new,
                  phone_number |-> phone, platform |-> platform, fault |-> f],
                 HandleRescheduleAppointment(cal,
                     [name |-> name, old_timestamp |-> old, new_timestamp |-> new,
                      phone_number |-> phone],
                     platform, f, FALSE))

\* book_appointment called with the text of a timestamp.
DoBookAppointmentText ==
    \E timestamp \in GoodTimestampTexts \cup BadTimestampTexts, f \in {0, 1} :
        /\ Len(cal) < MaxEvents
        /\ Serve("book_appointment_text",
                 [name |-> "Ann", timestamp |-> timestamp, phone |-> <<5>>,
                  duration |-> DefaultDuration, fault |-> f],
                 BookAppointment(cal, "Ann", Strptime(timestamp), <<5>>,
                                 DefaultDuration, f, 0, FALSE))

NextRequests ==
    \/ DoHandleBookAppointment
    \/ DoHandleRescheduleAppointment
    \/ DoBookAppointmentText
    \/ Return

SpecRequests == Init /\ [][NextRequests]_vars

\* C21: validation failures are detected before any calendar call.
\* handle_book_appointment without a name, a timestamp or a phone number and
\* handle_reschedule_appointment without a name, a phone number, an old or a
\* new timestamp return status 400 without obtaining a platform or calling
\* it; book_appointment with a timestamp that does not parse returns
\* success=false without a list or an insert call.
C21_ValidationBeforeCalendar ==
    /\ (/\ last.op = "handle_book_appointment"
        /\ \/ ~Truthy(last.args.name)
           \/ ~Truthy(last.args.timestamp)
           \/ ~Truthy(last.args.phone_number)) =>
           /\ last.res.statusCode = 400
           /\ last.res.raised = ""
           /\ last.calls = <<>>
           /\ cal = last.before
    /\ (/\ last.op = "handle_reschedule_appointment"
        /\ \/ ~Truthy(last.args.name)
           \/ ~Truthy(last.args.phone_number)
           \/ ~Truthy(last.args.old_timestamp)
           \/ ~Truthy(last.args.new_timestamp)) =>
           /\ last.res.statusCode = 400
           /\ last.res.raised = ""
           /\ last.calls = <<>>
           /\ cal = last.before
    /\ (/\ last.op = "book_appointment_text"
        /\ last.args.timestamp \in BadTimestampTexts) =>
           /\ ~last.res.success
           /\ ApiCalls(last.calls) = <<>>
           /\ cal = last.before
    /\ (/\ last.op = "handle_book_appointment"
        /\ last.res.statusCode = 200
        /\ last.args.timestamp.val \in BadTimestampTexts) =>
           /\ ~last.res.result.success
           /\ ApiCalls(last.calls) = <<>>
           /\ cal = last.before

\* A booking request without a phone number for a platform that does not
\* exist is answered 400; the platform was never asked for.
C21_MissingPhoneAnswered ==
    /\ last.op = "handle_book_appointment"
    /\ Truthy(last.args.name)
    /\ Truthy(last.args.timestamp)
    /\ last.args.phone_number = PyNone
    /\ last.args.platform = PyStr(<<"square">>)
    /\ last.res.statusCode = 400
    /\ last.res.text = <<"Name, timestamp, and phone number are required">>
    /\ last.calls = <<>>

(***************************************************************************)
(* All-day events (Spec)                                                   *)
(***************************************************************************)
\* The all-day events of the calendar before the call that lie on the day
\* of timestamp.
AllDayOn(timestamp) ==
    {k \in 1..Len(last.before) :
        /\ last.before[k].allDay
        /\ DayOf(LocalStart(last.before[k])) = DayOf(timestamp)}

TimedOnly(items) == SelectSeq(items, LAMBDA e : ~e.allDay)

\* C22: an all-day event is never a conflict.  book_appointment accepts an
\* in-hours request whose interval overlaps no timed event although the day
\* holds an all-day event, and get_available_times of the base platform
\* answers as it would if the all-day events were not on the day.
C22_AllDayIsNoConflict ==
    /\ (/\ last.op = "book_appointment"
        /\ last.args.fault = 0
        /\ InHoursInterval(last.args.timestamp, last.args.duration)
        /\ ~OverlapsExisting(last.args.timestamp, last.args.duration)
        /\ AllDayOn(last.args.timestamp) # {}) =>
           /\ last.res.success
           /\ cal = StoreInsert(last.before,
                        BookedEvent(last.args.name, last.args.timestamp,
                                    last.args.phone, last.args.duration))
    /\ (last.op = "get_available_times") =>
           last.res = BaseGetAvailableTimes(last.args.timestamp,
                          TimedOnly(last.args.items), last.args.duration, now)

\* A booking went through on a day that holds an all-day event.
C22_BookedBesideAllDay ==
    /\ last.op = "book_appointment"
    /\ last.res.success
    /\ AllDayOn(last.args.timestamp) # {}
    /\ Len(cal) = Len(last.before) + 1

(***************************************************************************)
(* The override GoogleCalendarPlatform.get_available_times on its own      *)
(* (SpecOverride): the slot list it builds (generated) and what becomes of *)
(* the call (exc names the exception it ends with).                        *)
(***************************************************************************)
DoGoogleGetAvailableTimes ==
    \E day \in QueryDays, duration \in QueryDurations :
        Serve("google_get_available_times",
              [timestamp |-> At(day, 10, 0), duration |-> duration,
               items |-> EventsList(cal, At(day, 10, 0), FALSE)],
              Outcome(cal,
                      GoogleGetAvailableTimes(At(day, 10, 0),
                          EventsList(cal, At(day, 10, 0), FALSE), duration),
                      <<>>))

NextOverride == DoGoogleGetAvailableTimes \/ Return

SpecOverride == InitAvail /\ [][NextOverride]_vars

\* The slot list holds a slot whose interval shares an instant with the
\* timed event i of the listing.
ListedOverBooking(i) ==
    \E k \in 1..Len(last.res.generated) :
        ShareAnInstant(
            AtHour(last.args.timestamp, 0) + MinutesOfHM(last.res.generated[k].start),
            AtHour(last.args.timestamp, 0) + MinutesOfHM(last.res.generated[k].start)
                + last.args.duration,
            LocalStart(last.args.items[i]), LocalEnd(last.args.items[i]))

\* C23: the override get_available_times of the Google platform never lists
\* a candidate slot that shares an instant with a booked timed event,
\* whatever the duration and the booked interval, also when the candidate
\* strictly contains a shorter booked event.
C23_OverrideListsNoOverlap ==
    (last.op = "google_get_available_times") =>
        \A i \in TimedItems : ~ListedOverBooking(i)

\* The slot 09:00-09:30 is in the list the override built although an event
\* 09:10-09:20 is booked; the call then ends in the TypeError of
\* _combine_events.
C23_ContainedEventListed ==
    /\ last.op = "google_get_available_times"
    /\ last.args.duration = 30
    /\ \E i \in TimedItems :
           /\ MinuteOfDay(LocalStart(last.args.items[i])) = 9 * 60 + 10
           /\ MinuteOfDay(LocalEnd(last.args.items[i])) = 9 * 60 + 20
    /\ Offered(9 * 60)
    /\ last.res.exc = TypeError

(***************************************************************************)
(* The candidates of a day (SpecAvail).  On a future day without timed     *)
(* events every candidate of the slot loop is in the answer.               *)
(***************************************************************************)
FreeFutureDay ==
    /\ last.op = "get_available_times"
    /\ DayOf(last.args.timestamp) > DayOf(now)
    /\ TimedItems = {}

\* C24: for every duration the candidate slots of a day are a partition at
\* slot granularity: ordered by start, pairwise non-overlapping, each one
\* starting exactly where the one before ends, so that a wholly free day is
\* rendered as one contiguous run.
C24_CandidatesPartitionTheDay ==
    FreeFutureDay =>
        /\ \A k \in 1..(Len(last.res.generated) - 1) :
              /\ StrLT(last.res.generated[k].start, last.res.generated[k + 1].start)
              /\ last.res.generated[k + 1].start = last.res.generated[k].end
        /\ Len(last.res.generated) >= RangeThreshold =>
              /\ last.res.times[1] = "from "
              /\ \A j \in 1..Len(last.res.times) : last.res.times[j] # ", "

\* With a duration of 90 minutes the candidates 09:00-10:30 and 09:30-11:00
\* of a free day overlap and are rendered one by one.
C24_LongSlotsOverlap ==
    /\ FreeFutureDay
    /\ last.args.duration = 90
    /\ Len(last.res.generated) >= 2
    /\ last.res.generated[1].end = <<1, 0, 3, 0>>
    /\ last.res.generated[2].start = <<0, 9, 3, 0>>
    /\ last.res.times[1] = "9"

(***************************************************************************)
(* The day search of get_availability (Spec)                               *)
(***************************************************************************)
\* Day d has a candidate of the asked duration that lies in business hours
\* and shares no instant with a timed event of the calendar before the call.
DayHasFreeSlot(d, duration) ==
    \E m \in CandidateStarts :
        /\ m + duration <= ClosingMinute
        /\ \A k \in 1..Len(last.before) :
              last.before[k].allDay
              \/ ~ShareAnInstant(d * MinutesPerDay + m,
                                 d * MinutesPerDay + m + duration,
                                 LocalStart(last.before[k]),
                                 LocalEnd(last.before[k]))

\* The day of the first calendar read of the call.
FirstInspected == DayOf(ApiCalls(last.calls)[1].ts)

InspectedDays == FirstInspected..(FirstInspected + max_days_to_check - 1)

\* C25: without a date get_availability inspects consecutive days one at a
\* time and returns the first of them that has a free slot; when none of 14
\* days has one it returns success=false with 'No available slots found in
\* the next two weeks'; it makes at most 14 list calls.  With a date it makes
\* exactly one list call and returns the result of that date, free slot or
\* not.
C25_FirstFreeDayReturned ==
    (/\ last.op = "get_availability"
     /\ last.args.fault = 0) =>
        /\ Len(ApiCalls(last.calls)) \in 1..max_days_to_check
        /\ \A k \in 1..Len(ApiCalls(last.calls)) :
              /\ ApiCalls(last.calls)[k].call = "list"
              /\ DayOf(ApiCalls(last.calls)[k].ts) = FirstInspected + k - 1
        /\ (last.args.date = NoDate
            /\ \E d \in InspectedDays : DayHasFreeSlot(d, last.args.duration)) =>
               /\ last.res.success
               /\ last.res.date \in InspectedDays
               /\ DayHasFreeSlot(last.res.date, last.args.duration)
               /\ \A d \in FirstInspected..(last.res.date - 1) :
                      ~DayHasFreeSlot(d, last.args.duration)
               /\ Len(ApiCalls(last.calls)) = last.res.date - FirstInspected + 1
        /\ (last.args.date = NoDate
            /\ \A d \in InspectedDays : ~DayHasFreeSlot(d, last.args.duration)) =>
               /\ ~last.res.success
               /\ last.res.message =
                      <<"No available slots found in the next two weeks">>
               /\ Len(ApiCalls(last.calls)) = max_days_to_check
        /\ (last.args.date # NoDate) =>
               /\ Len(ApiCalls(last.calls)) = 1
               /\ FirstInspected = last.args.date
               /\ last.res.success
               /\ last.res.date = last.args.date

\* Asked without a date while tomorrow is booked out, get_availability reads
\* tomorrow only and returns it as the day it found.
C25_BookedOutDayReturned ==
    /\ last.op = "get_availability"
    /\ last.args.fault = 0
    /\ last.args.date = NoDate
    /\ last.args.duration = 30
    /\ ~DayHasFreeSlot(Tomorrow, 30)
    /\ DayHasFreeSlot(Tomorrow + 1, 30)
    /\ last.res.success
    /\ last.res.message = <<"Available slots found">>
    /\ last.res.slots = NoAvailableTimesFound
    /\ last.res.date = Tomorrow
    /\ Len(ApiCalls(last.calls)) = 1

(***************************************************************************)
(* Sequences of bookings, cancellations and reschedulings on a calendar    *)
(* nobody else writes to (SpecSeq).                                        *)
(***************************************************************************)
\* The timed events of c never overlap pairwise.
NonOverlapping(c) ==
    \A i, j \in 1..Len(c) :
        (i < j /\ ~c[i].allDay /\ ~c[j].allDay) =>
            ~(c[i].start < c[j].end /\ c[j].start < c[i].end)

InitSeq ==
    /\ now = At(1, 8, 0)
    /\ cal \in {StoreOf(S) : S \in {T \in SUBSET
          {AllDayEvent("External", Tomorrow),
           TimedEvent("External", At(Tomorrow, 9, 30), At(Tomorrow, 10, 30), FALSE, <<>>),
           TimedEvent("External", At(Tomorrow, 16, 30), At(Tomorrow, 17, 30), FALSE, <<>>),
           BookedEvent("Ann", At(Tomorrow, 9, 0), <<5>>, 30)} :
               Cardinality(T) <= 1}}
    /\ NonOverlapping(cal)
    /\ last = NoLast
    /\ procs = [p \in Procs |-> IdleProc]

NextSeq ==
    \/ DoBookAppointment
    \/ DoCancelAppointment
    \/ DoRescheduleAppointment
    \/ Return

SpecSeq == InitSeq /\ [][NextSeq]_vars

InitAgree ==
    /\ now = At(1, 8, 0)
    /\ cal \in {StoreOf(S) : S \in {T \in SUBSET
          {TimedEvent("External", At(Tomorrow, 9, 10), At(Tomorrow, 9, 20), FALSE, <<>>),
           TimedEvent("External", At(Tomorrow, 9, 30), At(Tomorrow, 10, 30), FALSE, <<>>),
           TimedEvent("External", At(Today, 22, 0), At(Tomorrow, 10, 0), FALSE, <<>>),
           TimedEvent("External", At(Tomorrow, 16, 45), At(Tomorrow, 17, 15), FALSE, <<>>),
           AllDayEvent("External", Tomorrow)} :
               Cardinality(T) <= MaxEvents}}
    /\ last = NoLast
    /\ procs = [p \in Procs |-> IdleProc]

NextAgree ==
    \/ DoGetAvailableTimes
    \/ DoGoogleGetAvailableTimes
    \/ Return

SpecAgree == InitAgree /\ [][NextAgree]_vars

\* What book_appointment answers on the calendar the listing was made from,
\* asked for the candidate that starts at minute m of the listed day.
BookingOf(m) ==
    BookAppointment(cal, "Ann", AtHour(last.args.timestamp, 0) + m, <<5>>,
                    last.args.duration, 0, 0, FALSE).res

\* book_appointment finds a conflict for the candidate at minute m.
RefusedAsConflict(m) ==
    /\ ~BookingOf(m).success
    /\ HasConflict(EventsList(cal, last.args.timestamp, FALSE),
                   AtHour(last.args.timestamp, 0) + m,
                   AtHour(last.args.timestamp, 0) + m + last.args.duration)

\* C27: the availability listing and the booking decision agree on one
\* calendar state.  For a future day every slot get_available_times lists
\* is accepted by book_appointment for that start and duration, and every
\* in-hours slot-aligned request book_appointment rejects as a conflict is
\* absent from the listing.
C27_ListingAgreesWithBooking ==
    (/\ last.op \in {"get_available_times", "google_get_available_times"}
     /\ DayOf(last.args.timestamp) > Today) =>
        \A m \in CandidateStarts :
            /\ Offered(m) => BookingOf(m).success
            /\ (/\ m + last.args.duration <= ClosingMinute
                /\ RefusedAsConflict(m)) =>
                   ~Offered(m)

\* An event runs from 22:00 of the day before to 10:00: the base listing
\* offers 09:00-09:30, which book_appointment refuses as a conflict.
C27_OvernightEventListedButRefused ==
    /\ last.op = "get_available_times"
    /\ DayOf(last.args.timestamp) = Tomorrow
    /\ last.args.duration = 30
    /\ \E i \in TimedItems :
           /\ LocalStart(last.args.items[i]) = At(Today, 22, 0)
           /\ LocalEnd(last.args.items[i]) = At(Tomorrow, 10, 0)
    /\ Offered(9 * 60)
    /\ RefusedAsConflict(9 * 60)

(***************************************************************************)
(* The order of the writes of reschedule_appointment (Spec)                *)
(***************************************************************************)
\* The customer holds an appointment at old_timestamp before the call.
OldAppointmentExists ==
    /\ last.op = "reschedule_appointment"
    /\ \E i \in HeldBy(last.before, last.args.phone) :
           LocalStart(last.before[i]) = last.args.old_timestamp

\* The writes among the first k entries of the trace that went through and
\* concern an appointment of the customer.
DoneWrites(what, k) ==
    {j \in 1..k :
        /\ last.calls[j].call = what
        /\ last.calls[j].ret.success
        /\ last.calls[j].phone = last.args.phone}

\* The number of appointments the customer holds after the first k entries
\* of the trace.
HeldAfter(k) ==
    Cardinality(HeldBy(last.before, last.args.phone))
        + Cardinality(DoneWrites("insert", k))
        - Cardinality(DoneWrites("delete", k))

\* C28: in a reschedule_appointment call for a customer whose old
\* appointment exists, every delete comes after the insert of the new
\* event, the old appointment is deleted only when the new one was created,
\* and after every step of the call and at its end the customer holds at
\* least one appointment.
C28_BookBeforeCancel ==
    OldAppointmentExists =>
        /\ \A k \in 1..Len(last.calls) :
              last.calls[k].call = "delete" =>
                  \E j \in 1..(k - 1) :
                      /\ last.calls[j].call = "insert"
                      /\ last.calls[j].ret.success
                      /\ last.calls[j].ts = last.args.new_timestamp
                      /\ last.calls[j].phone = last.args.phone
        /\ \A k \in 0..Len(last.calls) : HeldAfter(k) >= 1
        /\ HeldAfter(Len(last.calls)) = Cardinality(HeldBy(cal, last.args.phone))
        /\ Cardinality(HeldBy(cal, last.args.phone)) >= 1

\* The appointment was moved: the new event was inserted, then the old one
\* deleted.
C28_MovedInOrder ==
    /\ OldAppointmentExists
    /\ last.res.success
    /\ \E j, k \in 1..Len(last.calls) :
          /\ j < k
          /\ last.calls[j].call = "insert" /\ last.calls[j].ret.success
          /\ last.calls[k].call = "delete" /\ last.calls[k].ret.success
          /\ last.calls[k].ts = last.args.old_timestamp
    /\ HeldAfter(Len(last.calls)) = 1

(***************************************************************************)
(* cancel_appointment on a day with other events (Spec)                    *)
(***************************************************************************)
\* The events of the calendar before the call that start at the given
\* timestamp and were booked with the given phone number.
MatchingAppointments ==
    {i \in 1..Len(last.before) :
        /\ ~last.before[i].allDay
        /\ LocalStart(last.before[i]) = last.args.timestamp
        /\ last.before[i].hasDesc
        /\ last.before[i].phone = last.args.phone}

\* C29: cancel_appointment deletes the event and returns success=true
\* whenever the day holds a timed event that starts at the timestamp and
\* carries the phone number, whatever else is on that day, all-day events
\* and events without a description included.
C29_CancelFindsItsAppointment ==
    (/\ last.op = "cancel_appointment"
     /\ last.args.fault = 0
     /\ MatchingAppointments # {}) =>
        /\ last.res.success
        /\ last.res.message = <<"Appointment cancelled successfully">>
        /\ Len(Deletes(last.calls)) = 1
        /\ Len(cal) = Len(last.before) - 1

\* The appointment is there, the day also holds an all-day event, and the
\* cancellation ends in the KeyError of reading its start.
C29_AllDayEventBreaksCancel ==
    /\ last.op = "cancel_appointment"
    /\ last.args.fault = 0
    /\ MatchingAppointments # {}
    /\ AllDayOn(last.args.timestamp) # {}
    /\ ~last.res.success
    /\ last.res.message = <<"Error cancelling appointment: ", "'dateTime'">>
    /\ Deletes(last.calls) = <<>>
    /\ cal = last.before

(***************************************************************************)
(* A booking that is cancelled right away (SpecRoundTrip): the caller      *)
(* books and, when the booking went through, cancels the same timestamp    *)
(* with the same phone number before anything else happens.                *)
(***************************************************************************)
BookThenCancel(c, name, timestamp, phone_number, duration, rev) ==
    IF ~BookAppointment(c, name, timestamp, phone_number, duration, 0, 0, FALSE).res.success
    THEN Outcome(c,
             [booking |-> BookAppointment(c, name, timestamp, phone_number,
                                          duration, 0, 0, FALSE).res,
              cancel |-> NoResult],
             BookAppointment(c, name, timestamp, phone_number, duration,
                             0, 0, FALSE).calls)
    ELSE Outcome(
             CancelAppointment(
                 BookAppointment(c, name, timestamp, phone_number, duration,
                                 0, 0, FALSE).cal,
                 timestamp, phone_number, 0, 0, rev).cal,
             [booking |-> BookAppointment(c, name, timestamp, phone_number,
                                          duration, 0, 0, FALSE).res,
              cancel |-> CancelAppointment(
                             BookAppointment(c, name, timestamp, phone_number,
                                             duration, 0, 0, FALSE).cal,
                             timestamp, phone_number, 0, 0, rev).res],
             BookAppointment(c, name, timestamp, phone_number, duration,
                             0, 0, FALSE).calls
             \o CancelAppointment(
                    BookAppointment(c, name, timestamp, phone_number, duration,
                                    0, 0, FALSE).cal,
                    timestamp, phone_number, 0, 0, rev).calls)

DoBookThenCancel ==
    \E name \in Names, timestamp \in Timestamps, phone \in Phones,
       duration \in Durations, rev \in BOOLEAN :
        /\ Len(cal) < MaxEvents
        /\ Serve("book_then_cancel",
                 [name |-> name, timestamp |-> timestamp, phone |-> phone,
                  duration |-> duration],
                 BookThenCancel(cal, name, timestamp, phone, duration, rev))

NextRoundTrip ==
    \/ DoBookThenCancel
    \/ DoBookAppointment
    \/ ExternalAdd
    \/ Return

SpecRoundTrip == Init /\ [][NextRoundTrip]_vars

\* C30: after a successful book_appointment(name, T, phone) on a calendar
\* that holds no other event at T for that phone number, the
\* cancel_appointment(T, phone) that follows at once returns success=true,
\* deletes exactly the event just created with one delete call, and leaves
\* the calendar as it was before the booking.
C30_BookCancelRoundTrip ==
    (/\ last.op = "book_then_cancel"
     /\ last.res.booking.success
     /\ MatchingAppointments = {}) =>
        /\ last.res.cancel.success
        /\ Len(Deletes(last.calls)) = 1
        /\ Deletes(last.calls)[1].ts = last.args.timestamp
        /\ Deletes(last.calls)[1].phone = last.args.phone
        /\ cal = last.before

\* The booking went through beside an all-day event, the cancel that
\* followed failed, and the appointment stays in the calendar.
C30_BookingNotUndone ==
    /\ last.op = "book_then_cancel"
    /\ last.res.booking.success
    /\ MatchingAppointments = {}
    /\ ~last.res.cancel.success
    /\ last.res.cancel.message = <<"Error cancelling appointment: ", "'dateTime'">>
    /\ Deletes(last.calls) = <<>>
    /\ Len(cal) = Len(last.before) + 1

=============================================================================
